---- MODULE Spec2Model ----
(***************************************************************************)
(* Health monitoring library (src/health_monitoring_lib/rust): the         *)
(* deadline monitor's lock-free slot state machine, the deadline templates *)
(* that hand out Deadline tokens, and the worker thread that evaluates the *)
(* monitors and sends the alive notification.                              *)
(*                                                                         *)
(* Time is a global millisecond clock.  Every monitor and the worker read  *)
(* the same clock; the deadline monitor is created at clock 0, so          *)
(* DeadlineMonitorInner::now() is the clock itself.                        *)
(***************************************************************************)
EXTENDS Integers, FiniteSets, Sequences, TLC

\* Horizon of the clock (milliseconds).
MaxTime == 5

\* The deadlines registered with the monitor (create_monitor_with_deadlines):
\* "long" has a lower bound above zero, "fast" has none.
Tags == {"long", "fast"}

\* Tags a caller may ask for; "unknown" is registered nowhere.
TagUniverse == Tags \cup {"unknown"}

\* TimeRange of each registered deadline, in milliseconds.
Range == [long |-> [min |-> 1, max |-> 2], fast |-> [min |-> 0, max |-> 1]]

\* The deadline the application of the worker scenario works with.
WorkerTags == {"long"}

\* Values the builder is given for the two cycles.
SupervisorApiCycles == {0, 2}
InternalCycles == {1, 2}

None == [none |-> TRUE]

VARIABLES
    clock,                  \* the monotonic clock, in ms
    is_in_use,              \* DeadlineTemplate.is_in_use, per tag
    active_deadlines,       \* DeadlineMonitorInner.active_deadlines: the packed state word, per tag
    tokens,                 \* number of live Deadline objects, per tag
    handles,                \* whether a DeadlineHandle (a started section) is live, per tag
    section,                \* what the application did with the deadline last, when it started it,
                            \* and whether the Deadline was taken again since the slot failed too early
    worker_pc,              \* position of the monitoring thread
    should_stop,            \* UniqueThreadRunner.should_stop
    handle,                 \* UniqueThreadRunner.handle is Some
    join_pc,                \* position of the thread calling join
    supervisor_api_cycle,   \* MonitoringLogic.supervisor_api_cycle
    internal_duration_cycle,\* UniqueThreadRunner.internal_duration_cycle
    last_notification,      \* MonitoringLogic.last_notification
    next_sleep_time,        \* local of the monitoring thread
    now,                    \* local of the monitoring thread: Instant taken before run()
    notify_called,          \* number of notify_alive calls the client has received
    hb_builder,             \* HeartbeatMonitorBuilder.range and the cycle build is given
    heartbeat_monitor,      \* what build returned: HeartbeatMonitorInner.range and .monitor_starting_point
    heartbeat_state,        \* HeartbeatMonitorInner.heartbeat_state, the packed word as its fields
    hmon_starting_point,    \* the Instant the health monitor hands to evaluate
    hb_eval,                \* locals of a running heartbeat evaluate: what it read, or None
    beats,                  \* what the heartbeat's caller and the evaluating thread did so far
    logic_builder,          \* LogicMonitorBuilder: initial_state, allowed_states, allowed_transitions
    logic_monitor,          \* what build returned: LogicMonitorInner's allowed states and transitions
    current_state,          \* LogicMonitorInner.current_state (the hash of the state's tag)
    monitor_state,          \* LogicMonitorInner.monitor_state (the error latch)
    logic_seen,             \* the state the application moved the monitor to, and the first error it was handed
    hm_builder,             \* HealthMonitorBuilder: the sub-builders per kind and tag, and the two cycles
    health_monitor,         \* what build returned: HealthMonitor's containers per kind and tag, and its cycles
    threads,                \* the MonitoringLogic of every thread UniqueThreadRunner::start has spawned
    hm_seen,                \* which monitors the application asked for and was handed, and whether it called start
    deadline_calls,         \* locals of the stop and of the evaluate that are under way on the deadline monitor
    logic_calls,            \* locals of the transition each application thread has under way
    last                    \* the operation that made the last step, with what it returned

vars == <<clock, is_in_use, active_deadlines, tokens, handles, section, worker_pc,
          should_stop, handle, join_pc, supervisor_api_cycle, internal_duration_cycle,
          last_notification, next_sleep_time, now, notify_called,
          hb_builder, heartbeat_monitor, heartbeat_state, hmon_starting_point, hb_eval, beats,
          logic_builder, logic_monitor, current_state, monitor_state, logic_seen,
          hm_builder, health_monitor, threads, hm_seen, deadline_calls, logic_calls, last>>

deadlineVars == <<is_in_use, active_deadlines, tokens, handles, section>>
workerVars == <<worker_pc, should_stop, handle, join_pc, last_notification,
                next_sleep_time, now, notify_called>>
configVars == <<supervisor_api_cycle, internal_duration_cycle>>
heartbeatVars == <<hb_builder, heartbeat_monitor, heartbeat_state, hmon_starting_point,
                   hb_eval, beats>>
logicVars == <<logic_builder, logic_monitor, current_state, monitor_state, logic_seen>>
healthMonitorVars == <<hm_builder, health_monitor, threads, hm_seen>>
stepVars == <<deadline_calls, logic_calls>>

----------------------------------------------------------------------------
(* Packed deadline state: bits 0..3 are the flags, bits 32..63 the          *)
(* timestamp; the word is kept as the pair of the two fields.               *)

DEADLINE_STATE_RUNNING == 2
DEADLINE_STATE_STOPPED == 1
DEADLINE_STATE_FINISHED_TOO_EARLY == 8

HasBit(bits, mask) == (bits \div mask) % 2 = 1
OrBit(bits, mask) == IF HasBit(bits, mask) THEN bits ELSE bits + mask

is_running(s) == HasBit(s.bits, DEADLINE_STATE_RUNNING)
is_stopped(s) == HasBit(s.bits, DEADLINE_STATE_STOPPED)
is_underrun(s) == HasBit(s.bits, DEADLINE_STATE_FINISHED_TOO_EARLY)
timestamp_ms(s) == s.timestamp
set_timestamp_ms(s, t) == [bits |-> s.bits, timestamp |-> t]
set_running(s) == [s EXCEPT !.bits = OrBit(s.bits, DEADLINE_STATE_RUNNING)]
set_underrun(s) == [s EXCEPT !.bits = OrBit(s.bits, DEADLINE_STATE_FINISHED_TOO_EARLY)]

\* DeadlineStateSnapshot::default()
DefaultSnapshot == [bits |-> DEADLINE_STATE_STOPPED, timestamp |-> 0]

----------------------------------------------------------------------------
(* Deadline templates and tokens                                            *)

\* Mutant: the flag is not tested, every caller gets the deadline.
acquire_deadline_unchecked(flag) == [ok |-> TRUE, flag |-> TRUE]

\* DeadlineTemplate::acquire_deadline: compare_exchange(false, true).
acquire_deadline(flag) == [ok |-> ~flag, flag |-> TRUE]

\* DeadlineMonitor::get_deadline, called by any application thread.
GetDeadline(tag) ==
    /\ LET r == acquire_deadline(is_in_use[tag]) IN
        /\ is_in_use' = [is_in_use EXCEPT ![tag] = r.flag]
        /\ tokens' = [tokens EXCEPT ![tag] = IF r.ok THEN @ + 1 ELSE @]
        /\ section' = [section EXCEPT ![tag].retaken =
                          @ \/ (r.ok /\ is_underrun(active_deadlines[tag]))]
        /\ last' = [op |-> "get_deadline", tag |-> tag, live_before |-> tokens[tag],
                    ret |-> IF r.ok THEN "Ok" ELSE "DeadlineInUse"]
    /\ UNCHANGED <<clock, active_deadlines, handles, workerVars, configVars, healthMonitorVars, stepVars, heartbeatVars, logicVars>>

\* DeadlineMonitor::get_deadline for a tag that was never registered.
GetDeadlineNotFound ==
    /\ \E tag \in TagUniverse \ Tags :
        last' = [op |-> "get_deadline", tag |-> tag, live_before |-> 0,
                 ret |-> "DeadlineNotFound"]
    /\ UNCHANGED <<clock, deadlineVars, workerVars, configVars, healthMonitorVars, stepVars, heartbeatVars, logicVars>>

\* Drop of a Deadline (release_deadline); a live DeadlineHandle borrows the
\* Deadline, which cannot be dropped before the handle.
DropDeadline(tag) ==
    /\ tokens[tag] > 0
    /\ ~handles[tag]
    /\ is_in_use' = [is_in_use EXCEPT ![tag] = FALSE]
    /\ tokens' = [tokens EXCEPT ![tag] = @ - 1]
    /\ last' = [op |-> "drop_deadline", tag |-> tag]
    /\ UNCHANGED <<clock, active_deadlines, handles, section, workerVars, configVars, healthMonitorVars, stepVars, heartbeatVars, logicVars>>

----------------------------------------------------------------------------
(* Deadline start and stop                                                  *)

\* Mutant: start does not look at the state the slot is in.
start_update_no_latch(current, max_time) ==
    set_running(set_timestamp_ms(DefaultSnapshot, max_time))

\* Mutant: only the underrun bit keeps start from setting the slot running.
start_update_underrun_only(current, max_time) ==
    IF is_underrun(current)
    THEN None
    ELSE set_running(set_timestamp_ms(DefaultSnapshot, max_time))

\* The closure start_internal hands to DeadlineState::update: None leaves
\* the word as it is.
start_update(current, max_time) ==
    IF is_running(current) \/ is_underrun(current)
    THEN None
    ELSE set_running(set_timestamp_ms(DefaultSnapshot, max_time))

\* Deadline::start / start_internal.
Start(tag) ==
    /\ tokens[tag] > 0
    /\ ~handles[tag]
    /\ LET max_time == clock + Range[tag].max
           new == start_update(active_deadlines[tag], max_time)
           is_broken == new = None
       IN
        /\ active_deadlines' = [active_deadlines EXCEPT ![tag] = IF is_broken THEN @ ELSE new]
        /\ handles' = [handles EXCEPT ![tag] = ~is_broken]
        /\ section' = [section EXCEPT ![tag] =
                          IF is_broken THEN @
                          ELSE [state |-> "started", since |-> clock, retaken |-> @.retaken]]
        /\ last' = [op |-> "start", tag |-> tag, before |-> active_deadlines[tag],
                    was |-> section[tag].state,
                    ret |-> IF is_broken THEN "DeadlineAlreadyFailed" ELSE "Ok"]
    /\ UNCHANGED <<clock, is_in_use, tokens, workerVars, configVars, healthMonitorVars, stepVars, heartbeatVars, logicVars>>

\* Mutant: a stop after the miss marks the slot like a stop that is too early.
stop_update_late_marks(current, t, min, max) ==
    LET expected == timestamp_ms(current)
        earliest_time == expected - max + min
    IN  IF expected < t
        THEN [new |-> set_underrun(current), err |-> "TooLate"]
        ELSE IF t < earliest_time
        THEN [new |-> set_underrun(current), err |-> "TooEarly"]
        ELSE [new |-> DefaultSnapshot, err |-> "None"]

\* Mutant: the upper bound is exclusive (expected <= now is "too late").
stop_update_exclusive_max(current, t, min, max) ==
    LET expected == timestamp_ms(current)
        earliest_time == expected - max + min
    IN  IF expected <= t
        THEN [new |-> None, err |-> "TooLate"]
        ELSE IF t < earliest_time
        THEN [new |-> set_underrun(current), err |-> "TooEarly"]
        ELSE [new |-> DefaultSnapshot, err |-> "None"]

\* Mutant: a stop after the miss resets the slot like a stop in range.
stop_update_clears_miss(current, t, min, max) ==
    LET expected == timestamp_ms(current)
        earliest_time == expected - max + min
    IN  IF expected < t
        THEN [new |-> DefaultSnapshot, err |-> "TooLate"]
        ELSE IF t < earliest_time
        THEN [new |-> set_underrun(current), err |-> "TooEarly"]
        ELSE [new |-> DefaultSnapshot, err |-> "None"]

\* The closure stop_internal hands to DeadlineState::update, with the error
\* it notes for the log.
stop_update(current, t, min, max) ==
    LET expected == timestamp_ms(current)
        start_time == expected - max
        earliest_time == start_time + min
    IN  IF expected < t
        THEN [new |-> None, err |-> "TooLate"]
        ELSE IF t < earliest_time
        THEN [new |-> set_underrun(current), err |-> "TooEarly"]
        ELSE [new |-> DefaultSnapshot, err |-> "None"]

\* Mutant: deadline_stop maps a noted error to Failed.
deadline_stop_code_failed(err) == IF err = "None" THEN "Success" ELSE "Failed"

\* What deadline_stop hands back to its caller.
deadline_stop_code(err) == "Success"

\* What the application did, by the time that really passed since the start.
Verdict(elapsed, min, max) ==
    IF elapsed < min THEN "early" ELSE IF elapsed > max THEN "late" ELSE "in_range"

\* stop_internal from its update on, with the clock reading t it took
\* before.
StopAt(tag, t) ==
    /\ LET r == stop_update(active_deadlines[tag], t, Range[tag].min, Range[tag].max)
           elapsed == t - section[tag].since
           v == Verdict(elapsed, Range[tag].min, Range[tag].max)
       IN
        /\ active_deadlines' = [active_deadlines EXCEPT ![tag] = IF r.new = None THEN @ ELSE r.new]
        /\ section' = [section EXCEPT ![tag] =
                          [state |-> v, since |-> IF v = "late" THEN @.since ELSE 0,
                           retaken |-> @.retaken]]
        /\ last' = [op |-> "stop", tag |-> tag, elapsed |-> elapsed,
                    before |-> active_deadlines[tag],
                    logged |-> r.err, ret |-> deadline_stop_code(r.err)]
    /\ handles' = [handles EXCEPT ![tag] = FALSE]

\* DeadlineHandle::stop / drop of the handle / stop_internal.  Only a
\* successful start hands out the handle, so a stop follows a start.
Stop(tag) ==
    /\ handles[tag]
    /\ deadline_calls.stop[tag] = None
    /\ StopAt(tag, clock)
    /\ UNCHANGED <<clock, is_in_use, tokens, workerVars, configVars, healthMonitorVars, stepVars, heartbeatVars, logicVars>>

\* stop_internal in the producer's thread, up to its clock reading ...
StopReadClock(tag) ==
    /\ handles[tag]
    /\ deadline_calls.stop[tag] = None
    /\ deadline_calls' = [deadline_calls EXCEPT !.stop[tag] = [now |-> clock]]
    /\ last' = [op |-> "stop_now", tag |-> tag]
    /\ UNCHANGED <<clock, deadlineVars, workerVars, configVars, healthMonitorVars, logic_calls,
                   heartbeatVars, logicVars>>

\* ... and from there to its return.
StopUpdate(tag) ==
    /\ deadline_calls.stop[tag] # None
    /\ StopAt(tag, deadline_calls.stop[tag].now)
    /\ deadline_calls' = [deadline_calls EXCEPT !.stop[tag] = None]
    /\ UNCHANGED <<clock, is_in_use, tokens, workerVars, configVars, healthMonitorVars, logic_calls,
                   heartbeatVars, logicVars>>

----------------------------------------------------------------------------
(* Evaluation                                                               *)

\* Mutant: a running slot is late from the instant of its timestamp on.
evaluate_slot_late_at_expiry(snapshot, t) ==
    IF is_underrun(snapshot) THEN "TooEarly"
    ELSE IF is_running(snapshot) /\ t >= timestamp_ms(snapshot) THEN "TooLate"
    ELSE "None"

\* Mutant: the running branch is tested before the underrun branch.
evaluate_slot_running_first(snapshot, t) ==
    IF is_running(snapshot) /\ t > timestamp_ms(snapshot) THEN "TooLate"
    ELSE IF is_underrun(snapshot) THEN "TooEarly"
    ELSE "None"

\* What DeadlineMonitorInner::evaluate reports for one slot read at time t.
evaluate_slot(snapshot, t) ==
    IF is_underrun(snapshot) THEN "TooEarly"
    ELSE IF is_running(snapshot) /\ t > timestamp_ms(snapshot) THEN "TooLate"
    ELSE "None"

\* DeadlineMonitorInner::evaluate: the (tag, error) pairs given to on_failed.
evaluate(t) ==
    {<<tag, evaluate_slot(active_deadlines[tag], t)>> : tag \in Tags}
        \ {<<tag, "None">> : tag \in Tags}

\* evaluate called directly on the monitor, as the unit tests do.
Evaluate ==
    /\ last' = [op |-> "evaluate", emitted |-> evaluate(clock)]
    /\ UNCHANGED <<clock, deadlineVars, workerVars, configVars, healthMonitorVars, stepVars, heartbeatVars, logicVars>>

\* The orders in which evaluate can find the slots in active_deadlines.
SlotOrders == {order \in [1..Cardinality(Tags) -> Tags] : \A tag \in Tags : \E i \in DOMAIN order : order[i] = tag}

\* DeadlineMonitorInner::evaluate in the worker thread, step by step: the
\* call, with the slots it will walk ...
EvaluateBegin ==
    /\ deadline_calls.evaluate = None
    /\ \E order \in SlotOrders :
        deadline_calls' = [deadline_calls EXCEPT !.evaluate = [todo |-> order, snapshot |-> None]]
    /\ last' = [op |-> "evaluate_begin"]
    /\ UNCHANGED <<clock, deadlineVars, workerVars, configVars, healthMonitorVars, logic_calls,
                   heartbeatVars, logicVars>>

\* ... deadline.snapshot() of the next slot ...
EvaluateSlotLoad ==
    /\ deadline_calls.evaluate # None
    /\ deadline_calls.evaluate.snapshot = None
    /\ deadline_calls' = [deadline_calls EXCEPT
                              !.evaluate.snapshot = active_deadlines[Head(deadline_calls.evaluate.todo)]]
    /\ last' = [op |-> "evaluate_load"]
    /\ UNCHANGED <<clock, deadlineVars, workerVars, configVars, healthMonitorVars, logic_calls,
                   heartbeatVars, logicVars>>

\* ... and the tests on that snapshot, with the clock read now; after the
\* last slot evaluate returns.
EvaluateSlotCheck ==
    /\ deadline_calls.evaluate # None
    /\ deadline_calls.evaluate.snapshot # None
    /\ LET call == deadline_calls.evaluate
           tag == Head(call.todo)
       IN
        /\ deadline_calls' = [deadline_calls EXCEPT !.evaluate =
                                  IF Tail(call.todo) = << >> THEN None
                                  ELSE [todo |-> Tail(call.todo), snapshot |-> None]]
        /\ last' = [op |-> "evaluate_slot", tag |-> tag, snapshot |-> call.snapshot,
                    stopping |-> deadline_calls.stop[tag],
                    err |-> evaluate_slot(call.snapshot, clock)]
    /\ UNCHANGED <<clock, deadlineVars, workerVars, configVars, healthMonitorVars, logic_calls,
                   heartbeatVars, logicVars>>

----------------------------------------------------------------------------
(* The worker: MonitoringLogic and the thread of UniqueThreadRunner         *)

\* Mutant: the alive notification does not look at the monitors' errors.
should_notify_despite_errors(has_any_error, elapsed, cycle) == elapsed > cycle

\* MonitoringLogic::run: whether this step calls notify_alive.
should_notify(has_any_error, elapsed, cycle) == ~has_any_error /\ elapsed > cycle

\* MonitoringLogic::run: the value the step returns (false is "stop").
run_result(has_any_error) == ~has_any_error

\* Mutant: the thread goes on after a failed run step (no break).
after_run_no_break(ok) == "next"

\* The thread after monitoring_logic.run(): break out of the loop on false.
after_run(ok) == IF ok THEN "next" ELSE "failed"

\* Mutant: the loop does not look at the stop flag.
loop_continues_always(stop_flag) == TRUE

\* The loop condition of the thread.
loop_continues(stop_flag) == ~stop_flag

WorkerDone == worker_pc \in {"stopped", "failed", "panicked"}

\* HealthMonitor::start: MonitoringLogic::new and UniqueThreadRunner::start.
StartWorker ==
    /\ worker_pc = "not_started"
    /\ join_pc = "idle"
    /\ last_notification' = clock
    /\ handle' = TRUE
    /\ next_sleep_time' = internal_duration_cycle
    /\ worker_pc' = "loop"
    /\ last' = [op |-> "start_worker"]
    /\ UNCHANGED <<clock, deadlineVars, should_stop, join_pc, now, notify_called, configVars, healthMonitorVars, stepVars, heartbeatVars, logicVars>>

\* while !should_stop.load(..)
WorkerLoop ==
    /\ worker_pc = "loop"
    /\ worker_pc' = IF loop_continues(should_stop) THEN "sleep" ELSE "stopped"
    /\ last' = [op |-> "worker"]
    /\ UNCHANGED <<clock, deadlineVars, should_stop, handle, join_pc, last_notification,
                   next_sleep_time, now, notify_called, configVars, healthMonitorVars, stepVars, heartbeatVars, logicVars>>

\* std::thread::sleep(next_sleep_time); let now = Instant::now();
\* The model ends at MaxTime: a sleep that would pass the horizon does not
\* return within it.
WorkerSleep ==
    /\ worker_pc = "sleep"
    /\ clock + next_sleep_time <= MaxTime
    /\ clock' = clock + next_sleep_time
    /\ now' = clock'
    /\ worker_pc' = "run"
    /\ last' = [op |-> "worker"]
    /\ UNCHANGED <<deadlineVars, should_stop, handle, join_pc, last_notification,
                   next_sleep_time, notify_called, configVars, healthMonitorVars, stepVars, heartbeatVars, logicVars>>

\* monitoring_logic.run(), and the break when it returns false.
WorkerRun ==
    /\ worker_pc = "run"
    /\ LET emitted == evaluate(clock)
           has_any_error == emitted # {}
           elapsed == clock - last_notification
           notify == should_notify(has_any_error, elapsed, supervisor_api_cycle)
           ok == run_result(has_any_error)
       IN
        /\ last_notification' = IF notify THEN clock ELSE last_notification
        /\ notify_called' = IF notify THEN notify_called + 1 ELSE notify_called
        /\ worker_pc' = after_run(ok)
        /\ now' = IF after_run(ok) = "next" THEN now ELSE 0
        /\ last' = [op |-> "run", emitted |-> emitted, elapsed |-> elapsed,
                    notified |-> notify_called' # notify_called, ret |-> ok]
    /\ UNCHANGED <<clock, deadlineVars, should_stop, handle, join_pc, next_sleep_time,
                   configVars, healthMonitorVars, stepVars, heartbeatVars, logicVars>>

\* next_sleep_time = interval - now.elapsed(): Duration's subtraction
\* panics when the run step took longer than the interval.
WorkerNext ==
    /\ worker_pc = "next"
    /\ LET elapsed == clock - now IN
        IF elapsed > internal_duration_cycle
        THEN /\ worker_pc' = "panicked"
             /\ UNCHANGED next_sleep_time
        ELSE /\ worker_pc' = "loop"
             /\ next_sleep_time' = internal_duration_cycle - elapsed
    /\ now' = 0
    /\ last' = [op |-> "worker"]
    /\ UNCHANGED <<clock, deadlineVars, should_stop, handle, join_pc, last_notification,
                   notify_called, configVars, healthMonitorVars, stepVars, heartbeatVars, logicVars>>

Worker == WorkerLoop \/ WorkerSleep \/ WorkerRun \/ WorkerNext

\* UniqueThreadRunner::join, up to the wait for the thread; the drop of the
\* HealthMonitor calls it.
JoinBegin ==
    /\ join_pc = "idle"
    /\ should_stop' = TRUE
    /\ handle' = FALSE
    /\ join_pc' = IF handle THEN "waiting" ELSE "returned"
    /\ last' = [op |-> "join"]
    /\ UNCHANGED <<clock, deadlineVars, worker_pc, last_notification, next_sleep_time, now,
                   notify_called, configVars, healthMonitorVars, stepVars, heartbeatVars, logicVars>>

\* handle.join() returns once the thread has ended.
JoinEnd ==
    /\ join_pc = "waiting"
    /\ WorkerDone
    /\ join_pc' = "returned"
    /\ last' = [op |-> "join"]
    /\ UNCHANGED <<clock, deadlineVars, worker_pc, should_stop, handle, last_notification,
                   next_sleep_time, now, notify_called, configVars, healthMonitorVars, stepVars, heartbeatVars, logicVars>>

----------------------------------------------------------------------------
(* Heartbeat monitor                                                        *)

\* Horizon of the clock in the heartbeat scenarios (milliseconds).
HeartbeatHorizon == 10

\* The ghost count of heartbeat() calls stops here.
MaxBeats == 5

\* A Duration: its whole milliseconds, and whether a part of a millisecond
\* is left over.
Duration(ms, sub) == [ms |-> ms, sub |-> sub]

\* Duration::as_millis: the whole milliseconds, the rest is dropped.
as_millis(d) == d.ms

\* Time ranges and processing cycles the builder is given.
HeartbeatRanges ==
    { [min |-> Duration(1, FALSE), max |-> Duration(2, FALSE)],
      [min |-> Duration(3, FALSE), max |-> Duration(6, TRUE)],
      [min |-> Duration(0, TRUE), max |-> Duration(1, FALSE)] }
ProcessingCycles ==
    { Duration(0, TRUE), Duration(1, FALSE), Duration(2, FALSE), Duration(5, FALSE),
      Duration(6, FALSE) }
HeartbeatInputs ==
    [range : HeartbeatRanges, internal_processing_cycle : ProcessingCycles]

\* InternalRange::from(TimeRange): the range in u32 milliseconds.
InternalRange_from(range) == [min |-> as_millis(range.min), max |-> as_millis(range.max)]

\* InternalRange::offset
InternalRange_offset(range, timestamp) ==
    [min |-> range.min + timestamp, max |-> range.max + timestamp]

\* HeartbeatStateSnapshot::default(): the all-zero word.
HeartbeatStateDefault ==
    [start_timestamp |-> 0, heartbeat_timestamp_offset |-> 0, counter |-> 0,
     post_init |-> FALSE]

\* HeartbeatStateSnapshot::new
HeartbeatStateSnapshot_new(start_timestamp) ==
    [HeartbeatStateDefault EXCEPT !.start_timestamp = start_timestamp, !.post_init = TRUE]

set_heartbeat_timestamp_offset(state, value) ==
    [state EXCEPT !.heartbeat_timestamp_offset = value]

\* HeartbeatStateSnapshot::increment_counter: min(counter + 1, 3).
increment_counter(state) == [state EXCEPT !.counter = IF @ + 1 < 3 THEN @ + 1 ELSE 3]

\* Mutant: the bound is not strict (2 * min < cycle is rejected, equality passes).
build_rejects_strict(range_min_ms, internal_processing_cycle_ms) ==
    range_min_ms * 2 < internal_processing_cycle_ms

\* HeartbeatMonitorBuilder::build: the check of the range against the cycle.
build_rejects(range_min_ms, internal_processing_cycle_ms) ==
    range_min_ms * 2 <= internal_processing_cycle_ms

NotBuilt == [result |-> "none"]

\* HeartbeatMonitorBuilder::build and HeartbeatMonitorInner::new.
BuildHeartbeat ==
    /\ heartbeat_monitor = NotBuilt
    /\ LET rejected == build_rejects(as_millis(hb_builder.range.min),
                                     as_millis(hb_builder.internal_processing_cycle))
       IN
        /\ heartbeat_monitor' =
              IF rejected THEN [result |-> "InvalidArgument"]
              ELSE [result |-> "Ok", range |-> InternalRange_from(hb_builder.range),
                    monitor_starting_point |-> clock]
        /\ heartbeat_state' = HeartbeatStateDefault
        /\ last' = [op |-> "build_heartbeat",
                    ret |-> IF rejected THEN "InvalidArgument" ELSE "Ok"]
    /\ UNCHANGED <<clock, deadlineVars, workerVars, configVars, healthMonitorVars, stepVars, hb_builder,
                   hmon_starting_point, hb_eval, beats, logicVars>>

\* The health monitor starts: the Instant it will hand to every evaluate.
StartHmon ==
    /\ heartbeat_monitor.result = "Ok"
    /\ hmon_starting_point = None
    /\ hmon_starting_point' = [at |-> clock]
    /\ beats' = [beats EXCEPT !.last_eval = clock]
    /\ last' = [op |-> "start_hmon"]
    /\ UNCHANGED <<clock, deadlineVars, workerVars, configVars, healthMonitorVars, stepVars, hb_builder,
                   heartbeat_monitor, heartbeat_state, hb_eval, logicVars>>

\* hmon_time_offset: the monitor's starting point seen from the health
\* monitor's, in milliseconds.
hmon_time_offset(hmon_start, monitor_start) == hmon_start - monitor_start

\* HeartbeatMonitorInner::heartbeat: the closure handed to update.
heartbeat_update(state, t) ==
    increment_counter(set_heartbeat_timestamp_offset(state, t - state.start_timestamp))

\* The heartbeat offset field has 29 bits: 1 << 29.
HEARTBEAT_OFFSET_LIMIT == 536870912

\* What the closure of heartbeat() needs to run through: the u32
\* subtraction now - start_ts must not underflow, and
\* set_heartbeat_timestamp_offset asserts that its value is below 1 << 29.
heartbeat_offset_accepted(t, start_ts) ==
    t >= start_ts /\ t - start_ts < HEARTBEAT_OFFSET_LIMIT

\* HeartbeatMonitor::heartbeat, called by the monitored thread.  When the
\* closure panics the state word is left as it was and the panic unwinds
\* into the caller.
Heartbeat ==
    /\ heartbeat_monitor.result = "Ok"
    /\ LET t == clock - heartbeat_monitor.monitor_starting_point
           accepted == heartbeat_offset_accepted(t, heartbeat_state.start_timestamp)
       IN
        /\ heartbeat_state' = IF accepted THEN heartbeat_update(heartbeat_state, t)
                               ELSE heartbeat_state
        /\ beats' = IF accepted
                     THEN [beats EXCEPT !.count = IF @ < MaxBeats THEN @ + 1 ELSE @,
                                        !.last_beat = clock,
                                        !.multiple = @ \/ beats.count >= 1]
                     ELSE beats
        /\ last' = [op |-> "heartbeat", t |-> t, start_ts |-> heartbeat_state.start_timestamp,
                    faulted |-> beats.faulted,
                    ret |-> IF accepted THEN "Ok" ELSE "panic"]
    /\ UNCHANGED <<clock, deadlineVars, workerVars, configVars, healthMonitorVars, stepVars, hb_builder,
                   heartbeat_monitor, hmon_starting_point, hb_eval, logicVars>>

\* Mutant: a beat before the window is reported and starts a new cycle too.
heartbeat_evaluate_restarts_on_early(snapshot, offset, t, range) ==
    LET start_timestamp == IF snapshot.post_init THEN snapshot.start_timestamp ELSE offset
        heartbeat_timestamp ==
            IF snapshot.post_init
            THEN snapshot.start_timestamp + snapshot.heartbeat_timestamp_offset
            ELSE snapshot.heartbeat_timestamp_offset
        r == InternalRange_offset(range, start_timestamp)
    IN  IF snapshot.counter > 1 THEN [err |-> "MultipleHeartbeats", new |-> None]
        ELSE IF snapshot.counter = 0
        THEN [err |-> IF t > r.max THEN "TooLate" ELSE "None", new |-> None]
        ELSE IF heartbeat_timestamp < r.min
        THEN [err |-> "TooEarly", new |-> HeartbeatStateSnapshot_new(heartbeat_timestamp)]
        ELSE IF heartbeat_timestamp > r.max THEN [err |-> "TooLate", new |-> None]
        ELSE [err |-> "None", new |-> HeartbeatStateSnapshot_new(heartbeat_timestamp)]

\* Mutant: a beat after the window is reported and starts a new cycle.
heartbeat_evaluate_recovers_from_late(snapshot, offset, t, range) ==
    LET start_timestamp == IF snapshot.post_init THEN snapshot.start_timestamp ELSE offset
        heartbeat_timestamp ==
            IF snapshot.post_init
            THEN snapshot.start_timestamp + snapshot.heartbeat_timestamp_offset
            ELSE snapshot.heartbeat_timestamp_offset
        r == InternalRange_offset(range, start_timestamp)
    IN  IF snapshot.counter > 1 THEN [err |-> "MultipleHeartbeats", new |-> None]
        ELSE IF snapshot.counter = 0
        THEN [err |-> IF t > r.max THEN "TooLate" ELSE "None", new |-> None]
        ELSE IF heartbeat_timestamp < r.min THEN [err |-> "TooEarly", new |-> None]
        ELSE IF heartbeat_timestamp > r.max
        THEN [err |-> "TooLate", new |-> HeartbeatStateSnapshot_new(heartbeat_timestamp)]
        ELSE [err |-> "None", new |-> HeartbeatStateSnapshot_new(heartbeat_timestamp)]

\* Mutant: the upper bound of the window is exclusive.
heartbeat_evaluate_inclusive_max(snapshot, offset, t, range) ==
    LET start_timestamp == IF snapshot.post_init THEN snapshot.start_timestamp ELSE offset
        heartbeat_timestamp ==
            IF snapshot.post_init
            THEN snapshot.start_timestamp + snapshot.heartbeat_timestamp_offset
            ELSE snapshot.heartbeat_timestamp_offset
        r == InternalRange_offset(range, start_timestamp)
    IN  IF snapshot.counter > 1 THEN [err |-> "MultipleHeartbeats", new |-> None]
        ELSE IF snapshot.counter = 0
        THEN [err |-> IF t >= r.max THEN "TooLate" ELSE "None", new |-> None]
        ELSE IF heartbeat_timestamp < r.min THEN [err |-> "TooEarly", new |-> None]
        ELSE IF heartbeat_timestamp >= r.max THEN [err |-> "TooLate", new |-> None]
        ELSE [err |-> "None", new |-> HeartbeatStateSnapshot_new(heartbeat_timestamp)]

\* HeartbeatMonitorInner::evaluate on the snapshot it loaded: the error it
\* hands to on_error and the state it stores (None: no store).
heartbeat_evaluate(snapshot, offset, t, range) ==
    LET start_timestamp == IF snapshot.post_init THEN snapshot.start_timestamp ELSE offset
        heartbeat_timestamp ==
            IF snapshot.post_init
            THEN snapshot.start_timestamp + snapshot.heartbeat_timestamp_offset
            ELSE snapshot.heartbeat_timestamp_offset
        r == InternalRange_offset(range, start_timestamp)
    IN  IF snapshot.counter > 1 THEN [err |-> "MultipleHeartbeats", new |-> None]
        ELSE IF snapshot.counter = 0
        THEN [err |-> IF t > r.max THEN "TooLate" ELSE "None", new |-> None]
        ELSE IF heartbeat_timestamp < r.min THEN [err |-> "TooEarly", new |-> None]
        ELSE IF heartbeat_timestamp > r.max THEN [err |-> "TooLate", new |-> None]
        ELSE [err |-> "None", new |-> HeartbeatStateSnapshot_new(heartbeat_timestamp)]

\* What evaluate reads before it decides: the clock (as offset and now),
\* then the state word.
EvaluateRead ==
    LET offset == hmon_time_offset(hmon_starting_point.at,
                                   heartbeat_monitor.monitor_starting_point)
    IN  [offset |-> offset, t |-> offset + (clock - hmon_starting_point.at),
         snapshot |-> heartbeat_state, beats |-> beats]

\* The rest of evaluate on what it read: the call of on_error and, for one
\* beat inside the window, the update whose closure ignores the value the
\* word holds by then.
EvaluateDecide(read) ==
    LET r == heartbeat_evaluate(read.snapshot, read.offset, read.t, heartbeat_monitor.range)
    IN
        /\ heartbeat_state' = IF r.new = None THEN heartbeat_state ELSE r.new
        /\ beats' = [beats EXCEPT !.count = IF r.new = None THEN @ ELSE 0,
                                  !.last_eval = clock,
                                  !.faulted = @ \/ r.err # "None"]
        /\ last' = [op |-> "evaluate_heartbeat", before |-> read.snapshot,
                    offset |-> read.offset, t |-> read.t, beats |-> read.beats,
                    overwritten |-> heartbeat_state,
                    emitted |-> IF r.err = "None" THEN {} ELSE {r.err}]

\* HeartbeatMonitorInner::evaluate as one step: no heartbeat() runs while
\* it does.
EvaluateHeartbeat ==
    /\ heartbeat_monitor.result = "Ok"
    /\ hmon_starting_point # None
    /\ hb_eval = None
    /\ EvaluateDecide(EvaluateRead)
    /\ UNCHANGED <<clock, deadlineVars, workerVars, configVars, healthMonitorVars, stepVars, hb_builder,
                   heartbeat_monitor, hmon_starting_point, hb_eval, logicVars>>

\* HeartbeatMonitorInner::evaluate in the worker thread, up to the load of
\* the state word.
EvaluateHeartbeatLoad ==
    /\ heartbeat_monitor.result = "Ok"
    /\ hmon_starting_point # None
    /\ hb_eval = None
    /\ hb_eval' = EvaluateRead
    /\ last' = [op |-> "evaluate_load"]
    /\ UNCHANGED <<clock, deadlineVars, workerVars, configVars, healthMonitorVars, stepVars, hb_builder,
                   heartbeat_monitor, heartbeat_state, hmon_starting_point, beats,
                   logicVars>>

\* ... and from there to its return.
EvaluateHeartbeatStore ==
    /\ hb_eval # None
    /\ EvaluateDecide(hb_eval)
    /\ hb_eval' = None
    /\ UNCHANGED <<clock, deadlineVars, workerVars, configVars, healthMonitorVars, stepVars, hb_builder,
                   heartbeat_monitor, hmon_starting_point, logicVars>>

\* How far the clock goes in the scenario of a monitor that runs for days,
\* and the time that passes at once while nobody calls the monitor.
LongHorizon == HEARTBEAT_OFFSET_LIMIT + MaxTime
LeapMs == HEARTBEAT_OFFSET_LIMIT \div 2

\* Days pass between two calls.
HeartbeatLeap ==
    /\ clock + LeapMs <= LongHorizon
    /\ clock' = clock + LeapMs
    /\ last' = [op |-> "tick"]
    /\ UNCHANGED <<deadlineVars, workerVars, configVars, healthMonitorVars, stepVars, heartbeatVars, logicVars>>

HeartbeatTick ==
    /\ clock < HeartbeatHorizon
    /\ clock' = clock + 1
    /\ last' = [op |-> "tick"]
    /\ UNCHANGED <<deadlineVars, workerVars, configVars, healthMonitorVars, stepVars, heartbeatVars, logicVars>>

(* The heartbeat scenario of heartbeat_monitor_cycle_in_range: the health   *)
(* monitor evaluates at every multiple of the processing cycle after its    *)
(* start, and the monitored thread beats so that the first beat's distance  *)
(* from that start and every gap between two beats lie in [min, max].  An   *)
(* evaluation that is due at a millisecond runs before the beats of that    *)
(* millisecond.                                                             *)

processing_cycle_ms == as_millis(hb_builder.internal_processing_cycle)

EvaluationDue == beats.last_eval + processing_cycle_ms

\* The time the next beat's distance is measured from.
BeatReference == IF beats.last_beat < 0 THEN hmon_starting_point.at ELSE beats.last_beat

CycleHeartbeat ==
    /\ hmon_starting_point # None
    /\ clock < EvaluationDue
    /\ clock - BeatReference >= heartbeat_monitor.range.min
    /\ clock - BeatReference <= heartbeat_monitor.range.max
    /\ Heartbeat

CycleEvaluate ==
    /\ hmon_starting_point # None
    /\ clock = EvaluationDue
    /\ EvaluateHeartbeat

CycleTick ==
    /\ hmon_starting_point # None =>
        /\ clock < EvaluationDue
        /\ clock < BeatReference + heartbeat_monitor.range.max
    /\ HeartbeatTick

----------------------------------------------------------------------------
(* Logic monitor                                                            *)

\* State tags the application uses; a tag that was not added is unknown to
\* the monitor.
StateTags == {"state1", "state2", "state3"}

\* The builder is given at most this many transitions.
MaxTransitions == 2

\* The tag the monitor is built with.
LogicMonitorTag == "logic_monitor"

\* HashedState::from(&StateTag): DefaultHasher over the tag.  The three tags
\* of the model hash to three different values.
HashedState_from(tag) ==
    CASE tag = "state1" -> 7101
      [] tag = "state2" -> 2902
      [] tag = "state3" -> 5303

OK_STATE == 0

\* Mutant: the discriminants start at 0, InvalidState is stored as OK_STATE.
LogicEvaluationError_to_u8_from_zero(error) ==
    IF error = "InvalidState" THEN OK_STATE ELSE OK_STATE + 1

\* u8::from(LogicEvaluationError): the enum's discriminants.
LogicEvaluationError_to_u8(error) ==
    IF error = "InvalidState" THEN OK_STATE + 1 ELSE OK_STATE + 2

\* LogicEvaluationError::from(u8)
LogicEvaluationError_from(value) ==
    IF value = OK_STATE + 1 THEN "InvalidState"
    ELSE IF value = OK_STATE + 2 THEN "InvalidTransition"
    ELSE "panic"

Ok(value) == [ok |-> TRUE, value |-> value]
Err(error) == [ok |-> FALSE, error |-> error]

\* LogicMonitorBuilder::new
LogicMonitorBuilder_new(initial_state) ==
    [initial_state |-> initial_state, allowed_states |-> {initial_state},
     allowed_transitions |-> {}]

\* LogicMonitorBuilder::add_state
AddState(state) ==
    /\ logic_monitor = NotBuilt
    /\ logic_builder' = [logic_builder EXCEPT !.allowed_states = @ \cup {state}]
    /\ last' = [op |-> "add_state"]
    /\ UNCHANGED <<clock, deadlineVars, workerVars, configVars, healthMonitorVars, stepVars, heartbeatVars,
                   logic_monitor, current_state, monitor_state, logic_seen>>

\* LogicMonitorBuilder::add_transition
AddTransition(from, to) ==
    /\ logic_monitor = NotBuilt
    /\ Cardinality(logic_builder.allowed_transitions \cup {<<from, to>>}) <= MaxTransitions
    /\ logic_builder' = [logic_builder EXCEPT !.allowed_transitions = @ \cup {<<from, to>>}]
    /\ last' = [op |-> "add_transition"]
    /\ UNCHANGED <<clock, deadlineVars, workerVars, configVars, healthMonitorVars, stepVars, heartbeatVars,
                   logic_monitor, current_state, monitor_state, logic_seen>>

\* Mutant: only the 'from' state of a transition is looked up.
logic_build_checks_from_only(allowed_states, allowed_transitions) ==
    IF allowed_transitions = {} THEN "WrongState"
    ELSE IF \E tr \in allowed_transitions : tr[1] \notin allowed_states
    THEN "InvalidArgument"
    ELSE "Ok"

\* LogicMonitorBuilder::build: the checks.
logic_build(allowed_states, allowed_transitions) ==
    IF allowed_transitions = {} THEN "WrongState"
    ELSE IF \E tr \in allowed_transitions :
                tr[1] \notin allowed_states \/ tr[2] \notin allowed_states
    THEN "InvalidArgument"
    ELSE "Ok"

\* LogicMonitorBuilder::build and LogicMonitorInner::new.
BuildLogic ==
    /\ logic_monitor = NotBuilt
    /\ LET result == logic_build(logic_builder.allowed_states,
                                 logic_builder.allowed_transitions)
       IN
        /\ logic_monitor' =
              IF result = "Ok"
              THEN [result |-> "Ok", monitor_tag |-> LogicMonitorTag,
                    allowed_states |-> logic_builder.allowed_states,
                    allowed_transitions |-> logic_builder.allowed_transitions]
              ELSE [result |-> result]
        /\ current_state' = IF result = "Ok"
                            THEN HashedState_from(logic_builder.initial_state)
                            ELSE current_state
        /\ monitor_state' = IF result = "Ok" THEN OK_STATE ELSE monitor_state
        /\ logic_seen' = [state |-> logic_builder.initial_state, fault |-> "None"]
        /\ last' = [op |-> "build_logic", ret |-> result]
    /\ UNCHANGED <<clock, deadlineVars, workerVars, configVars, healthMonitorVars, stepVars, heartbeatVars, logic_builder>>

\* Mutant: with the latch set state() returns the kind that was latched.
logic_state_returns_latched(latch, hashed_state, allowed_states) ==
    IF latch # OK_STATE THEN Err(LogicEvaluationError_from(latch))
    ELSE LET found == {e \in allowed_states : HashedState_from(e) = hashed_state}
         IN  IF found = {} THEN Err("InvalidState") ELSE Ok(CHOOSE e \in found : TRUE)

\* Mutant: state() does not look at the error latch.
logic_state_ignores_latch(latch, hashed_state, allowed_states) ==
    LET found == {e \in allowed_states : HashedState_from(e) = hashed_state}
    IN  IF found = {} THEN Err("InvalidState") ELSE Ok(CHOOSE e \in found : TRUE)

\* LogicMonitorInner::state
logic_state(latch, hashed_state, allowed_states) ==
    IF latch # OK_STATE THEN Err("InvalidState")
    ELSE LET found == {e \in allowed_states : HashedState_from(e) = hashed_state}
         IN  IF found = {} THEN Err("InvalidState") ELSE Ok(CHOOSE e \in found : TRUE)

\* Mutant: the transition is looked up before the state.
logic_transition_checks_transition_first(current, new_state, allowed_states, allowed_transitions) ==
    IF <<current, new_state>> \notin allowed_transitions THEN Err("InvalidTransition")
    ELSE IF new_state \notin allowed_states THEN Err("InvalidState")
    ELSE Ok(new_state)

\* Mutant: any allowed state can be moved to.
logic_transition_any_allowed_state(current, new_state, allowed_states, allowed_transitions) ==
    IF new_state \notin allowed_states THEN Err("InvalidState")
    ELSE Ok(new_state)

\* LogicMonitorInner::transition once the current state is known: the two
\* checks.
logic_transition(current, new_state, allowed_states, allowed_transitions) ==
    IF new_state \notin allowed_states THEN Err("InvalidState")
    ELSE IF <<current, new_state>> \notin allowed_transitions THEN Err("InvalidTransition")
    ELSE Ok(new_state)

\* LogicMonitor::transition, called by the application.
Transition(new_state) ==
    /\ logic_monitor.result = "Ok"
    /\ LET current == logic_state(monitor_state, current_state, logic_monitor.allowed_states)
           r == IF current.ok
                THEN logic_transition(current.value, new_state, logic_monitor.allowed_states,
                                      logic_monitor.allowed_transitions)
                ELSE current
       IN
        /\ monitor_state' = IF current.ok /\ ~r.ok
                            THEN LogicEvaluationError_to_u8(r.error)
                            ELSE monitor_state
        /\ current_state' = IF r.ok THEN HashedState_from(new_state) ELSE current_state
        /\ logic_seen' = [state |-> IF r.ok THEN new_state ELSE logic_seen.state,
                          fault |-> IF logic_seen.fault = "None" /\ ~r.ok
                                    THEN r.error ELSE logic_seen.fault]
        /\ last' = [op |-> "transition", to |-> new_state, from |-> logic_seen.state,
                    latch_before |-> monitor_state, hashed_before |-> current_state,
                    ret |-> r]
    /\ UNCHANGED <<clock, deadlineVars, workerVars, configVars, healthMonitorVars, stepVars, heartbeatVars,
                   logic_builder, logic_monitor>>

\* The application threads that share the LogicMonitor (transition takes
\* &self).
LogicThreads == {"thread1", "thread2"}

\* What a transition call that has returned leaves in the ghost.
LogicSeenAfter(new_state, r) ==
    [state |-> IF r.ok THEN new_state ELSE logic_seen.state,
     fault |-> IF logic_seen.fault = "None" /\ ~r.ok THEN r.error ELSE logic_seen.fault]

\* LogicMonitorInner::transition in one of several threads, step by step:
\* the call, up to the load of the latch in state() ...
TransitionLoadLatch(thread, new_state) ==
    /\ logic_monitor.result = "Ok"
    /\ logic_calls[thread] = None
    /\ logic_calls' = [logic_calls EXCEPT ![thread] =
                          [to |-> new_state, latch |-> monitor_state, current |-> None]]
    /\ last' = [op |-> "transition_load", thread |-> thread]
    /\ UNCHANGED <<clock, deadlineVars, workerVars, configVars, healthMonitorVars, deadline_calls,
                   heartbeatVars, logicVars>>

\* ... the rest of state(): with the latch set it returns InvalidState, and
\* so does transition; otherwise it loads the current state and looks it up.
TransitionLoadState(thread) ==
    /\ logic_calls[thread] # None
    /\ logic_calls[thread].current = None
    /\ LET call == logic_calls[thread]
           current == logic_state(call.latch, current_state, logic_monitor.allowed_states)
       IN
        /\ logic_calls' = [logic_calls EXCEPT ![thread] =
                              IF current.ok THEN [call EXCEPT !.current = current] ELSE None]
        /\ logic_seen' = IF current.ok THEN logic_seen ELSE LogicSeenAfter(call.to, current)
        /\ last' = IF current.ok THEN [op |-> "transition_load", thread |-> thread]
                   ELSE [op |-> "transition_return", thread |-> thread, to |-> call.to,
                         latch_before |-> monitor_state, hashed_before |-> current_state,
                         ret |-> current]
    /\ UNCHANGED <<clock, deadlineVars, workerVars, configVars, healthMonitorVars, deadline_calls,
                   heartbeatVars, logic_builder, logic_monitor, current_state, monitor_state>>

\* ... and the two checks with the store that follows them: the latch for
\* a fault, the current state otherwise.
TransitionStore(thread) ==
    /\ logic_calls[thread] # None
    /\ logic_calls[thread].current # None
    /\ LET call == logic_calls[thread]
           r == logic_transition(call.current.value, call.to, logic_monitor.allowed_states,
                                 logic_monitor.allowed_transitions)
       IN
        /\ monitor_state' = IF r.ok THEN monitor_state ELSE LogicEvaluationError_to_u8(r.error)
        /\ current_state' = IF r.ok THEN HashedState_from(call.to) ELSE current_state
        /\ logic_seen' = LogicSeenAfter(call.to, r)
        /\ last' = [op |-> "transition_return", thread |-> thread, to |-> call.to,
                    latch_before |-> monitor_state, hashed_before |-> current_state,
                    ret |-> r]
    /\ logic_calls' = [logic_calls EXCEPT ![thread] = None]
    /\ UNCHANGED <<clock, deadlineVars, workerVars, configVars, healthMonitorVars, deadline_calls,
                   heartbeatVars, logic_builder, logic_monitor>>

\* LogicMonitor::state, called by the application.
State ==
    /\ logic_monitor.result = "Ok"
    /\ last' = [op |-> "state", from |-> logic_seen.state,
                latch_before |-> monitor_state, hashed_before |-> current_state,
                ret |-> logic_state(monitor_state, current_state,
                                    logic_monitor.allowed_states)]
    /\ UNCHANGED <<clock, deadlineVars, workerVars, configVars, healthMonitorVars, stepVars, heartbeatVars, logicVars>>

\* Mutant: every latched error is reported as InvalidState.
logic_evaluate_one_kind(latch, monitor_tag) ==
    IF latch # OK_STATE THEN << <<monitor_tag, "InvalidState">> >> ELSE << >>

\* LogicMonitorInner::evaluate: the calls of on_error, in order.
logic_evaluate(latch, monitor_tag) ==
    IF latch # OK_STATE
    THEN << <<monitor_tag, LogicEvaluationError_from(latch)>> >>
    ELSE << >>

EvaluateLogic ==
    /\ logic_monitor.result = "Ok"
    /\ last' = [op |-> "evaluate_logic", latch_before |-> monitor_state,
                hashed_before |-> current_state,
                emitted |-> logic_evaluate(monitor_state, logic_monitor.monitor_tag)]
    /\ UNCHANGED <<clock, deadlineVars, workerVars, configVars, healthMonitorVars, stepVars, heartbeatVars, logicVars>>

----------------------------------------------------------------------------
(* Health monitor and its builder                                           *)

\* Tags monitors are registered under; "undefined_monitor" is registered
\* nowhere.  The two kinds keep their monitors in separate maps, so one tag
\* can name a monitor of either kind.
MonitorTags == {"deadline_monitor", "heartbeat_monitor"}
MonitorTagUniverse == MonitorTags \cup {"undefined_monitor"}
MonitorKinds == {"deadline", "heartbeat"}

\* Durations the builder is given for the two cycles, and the ranges of the
\* heartbeat sub-builders: def_range() and one whose min is half a cycle.
SupervisorApiCycleInputs ==
    { Duration(0, FALSE), Duration(0, TRUE), Duration(123, FALSE), Duration(500, FALSE) }
InternalProcessingCycleInputs == { Duration(0, FALSE), Duration(100, FALSE), Duration(100, TRUE) }
HeartbeatBuilderRanges ==
    { [min |-> Duration(100, FALSE), max |-> Duration(200, FALSE)],
      [min |-> Duration(50, FALSE), max |-> Duration(200, FALSE)] }

Some(value) == [some |-> value]

\* A key a map does not hold.
Absent == [state |-> "Absent"]

\* MonitorState::Available, MonitorState::Taken, and the container after
\* Option::take.
Available(monitor) == [state |-> "Available", monitor |-> monitor]
Taken(eval_handle) == [state |-> "Taken", handle |-> eval_handle]
EmptyContainer == [state |-> "None"]

\* The evaluation handle of a monitor: the other view of the same inner state.
get_eval_handle(monitor) == [inner |-> monitor]

\* HashMap::len
len(map) == Cardinality({tag \in MonitorTagUniverse : map[tag] # Absent})

\* The orders in which iter_mut can walk a map's keys.
IterationOrders(map) ==
    LET keys == {tag \in MonitorTagUniverse : map[tag] # Absent}
    IN  {order \in [1..Cardinality(keys) -> keys] : \A tag \in keys : \E i \in DOMAIN order : order[i] = tag}

\* HealthMonitorBuilder::new
HealthMonitorBuilder_new ==
    [deadline_monitor_builders |-> [tag \in MonitorTagUniverse |-> Absent],
     heartbeat_monitor_builders |-> [tag \in MonitorTagUniverse |-> Absent],
     supervisor_api_cycle |-> Duration(500, FALSE),
     internal_processing_cycle |-> Duration(100, FALSE)]

\* The monitor that was added first, after one more add.
FirstAddedAfter(first_added, key) ==
    IF first_added = None THEN [kind |-> key[1], tag |-> key[2]] ELSE first_added

\* HealthMonitorBuilder::add_deadline_monitor: insert overwrites.
AddDeadlineMonitor(monitor_tag) ==
    /\ health_monitor = NotBuilt
    /\ hm_builder' = [hm_builder EXCEPT !.deadline_monitor_builders[monitor_tag] =
                          [state |-> "Builder"]]
    /\ hm_seen' = [hm_seen EXCEPT !.first_added = FirstAddedAfter(@, <<"deadline", monitor_tag>>)]
    /\ last' = [op |-> "add_deadline_monitor"]
    /\ UNCHANGED <<clock, deadlineVars, workerVars, configVars, heartbeatVars, logicVars,
                   health_monitor, threads, stepVars>>

\* HealthMonitorBuilder::add_heartbeat_monitor
AddHeartbeatMonitor(monitor_tag, range) ==
    /\ health_monitor = NotBuilt
    /\ hm_builder' = [hm_builder EXCEPT !.heartbeat_monitor_builders[monitor_tag] =
                          [state |-> "Builder", range |-> range]]
    /\ hm_seen' = [hm_seen EXCEPT !.first_added = FirstAddedAfter(@, <<"heartbeat", monitor_tag>>)]
    /\ last' = [op |-> "add_heartbeat_monitor"]
    /\ UNCHANGED <<clock, deadlineVars, workerVars, configVars, heartbeatVars, logicVars,
                   health_monitor, threads, stepVars>>

\* HealthMonitorBuilder::with_supervisor_api_cycle
WithSupervisorApiCycle(cycle_duration) ==
    /\ health_monitor = NotBuilt
    /\ hm_builder' = [hm_builder EXCEPT !.supervisor_api_cycle = cycle_duration]
    /\ last' = [op |-> "with_supervisor_api_cycle"]
    /\ UNCHANGED <<clock, deadlineVars, workerVars, configVars, heartbeatVars, logicVars,
                   health_monitor, threads, hm_seen, stepVars>>

\* HealthMonitorBuilder::with_internal_processing_cycle
WithInternalProcessingCycle(cycle_duration) ==
    /\ health_monitor = NotBuilt
    /\ hm_builder' = [hm_builder EXCEPT !.internal_processing_cycle = cycle_duration]
    /\ last' = [op |-> "with_internal_processing_cycle"]
    /\ UNCHANGED <<clock, deadlineVars, workerVars, configVars, heartbeatVars, logicVars,
                   health_monitor, threads, hm_seen, stepVars>>

\* u64::is_multiple_of: zero is a multiple of everything, and the only
\* multiple of zero.
is_multiple_of(lhs, rhs) == IF rhs = 0 THEN lhs = 0 ELSE lhs % rhs = 0

\* Mutant: the number of monitors is not checked.
health_monitor_build_any_number(builder) ==
    LET supervisor_api_cycle_ms == as_millis(builder.supervisor_api_cycle)
        internal_processing_cycle_ms == as_millis(builder.internal_processing_cycle)
    IN  IF ~is_multiple_of(supervisor_api_cycle_ms, internal_processing_cycle_ms)
        THEN "InvalidArgument"
        ELSE IF \E tag \in MonitorTagUniverse :
                    /\ builder.heartbeat_monitor_builders[tag] # Absent
                    /\ build_rejects(as_millis(builder.heartbeat_monitor_builders[tag].range.min),
                                     internal_processing_cycle_ms)
        THEN "InvalidArgument"
        ELSE "Ok"

\* HealthMonitorBuilder::build: the checks, in the order they are made; the
\* deadline sub-builders cannot fail, a heartbeat sub-builder's error is
\* handed on.
health_monitor_build(builder) ==
    LET supervisor_api_cycle_ms == as_millis(builder.supervisor_api_cycle)
        internal_processing_cycle_ms == as_millis(builder.internal_processing_cycle)
        num_monitors == len(builder.deadline_monitor_builders)
                            + len(builder.heartbeat_monitor_builders)
    IN  IF ~is_multiple_of(supervisor_api_cycle_ms, internal_processing_cycle_ms)
        THEN "InvalidArgument"
        ELSE IF num_monitors = 0
        THEN "WrongState"
        ELSE IF \E tag \in MonitorTagUniverse :
                    /\ builder.heartbeat_monitor_builders[tag] # Absent
                    /\ build_rejects(as_millis(builder.heartbeat_monitor_builders[tag].range.min),
                                     internal_processing_cycle_ms)
        THEN "InvalidArgument"
        ELSE "Ok"

\* The map of containers build makes of a map of sub-builders.
BuiltMonitors(kind, builders) ==
    [tag \in MonitorTagUniverse |->
        IF builders[tag] = Absent THEN Absent
        ELSE Available([kind |-> kind, tag |-> tag])]

\* HealthMonitorBuilder::build
BuildHealthMonitor ==
    /\ health_monitor = NotBuilt
    /\ LET result == health_monitor_build(hm_builder) IN
        /\ health_monitor' =
              IF result = "Ok"
              THEN [result |-> "Ok",
                    deadline_monitors |->
                        BuiltMonitors("deadline", hm_builder.deadline_monitor_builders),
                    heartbeat_monitors |->
                        BuiltMonitors("heartbeat", hm_builder.heartbeat_monitor_builders),
                    worker |-> [internal_duration_cycle |-> hm_builder.internal_processing_cycle],
                    supervisor_api_cycle |-> hm_builder.supervisor_api_cycle]
              ELSE [result |-> result]
        /\ last' = [op |-> "build_health_monitor", ret |-> result]
    /\ UNCHANGED <<clock, deadlineVars, workerVars, configVars, heartbeatVars, logicVars,
                   hm_builder, threads, hm_seen, stepVars>>

\* Mutant: the monitor is handed out and the container stays Available.
get_monitor_keeps_available(monitors, monitor_tag) ==
    LET container == monitors[monitor_tag]
    IN  IF container.state = "Available"
        THEN [ret |-> Some(container.monitor), monitors |-> monitors]
        ELSE [ret |-> None, monitors |-> monitors]

\* HealthMonitor::get_monitor: what it returns and the map it leaves.
get_monitor(monitors, monitor_tag) ==
    LET container == monitors[monitor_tag]
    IN  IF container = Absent
        THEN [ret |-> None, monitors |-> monitors]
        ELSE IF container.state = "Available"
        THEN [ret |-> Some(container.monitor),
              monitors |-> [monitors EXCEPT ![monitor_tag] =
                               Taken(get_eval_handle(container.monitor))]]
        ELSE [ret |-> None, monitors |-> monitors]

MonitorsOf(hm, kind) ==
    IF kind = "deadline" THEN hm.deadline_monitors ELSE hm.heartbeat_monitors

\* HealthMonitor::get_deadline_monitor and ::get_heartbeat_monitor
GetMonitor(kind, monitor_tag) ==
    /\ health_monitor.result = "Ok"
    /\ LET r == get_monitor(MonitorsOf(health_monitor, kind), monitor_tag) IN
        /\ health_monitor' =
              IF kind = "deadline"
              THEN [health_monitor EXCEPT !.deadline_monitors = r.monitors]
              ELSE [health_monitor EXCEPT !.heartbeat_monitors = r.monitors]
        /\ hm_seen' = [hm_seen EXCEPT
                          !.asked = IF MonitorsOf(health_monitor, kind)[monitor_tag] = Absent
                                    THEN @ ELSE @ \cup {<<kind, monitor_tag>>},
                          !.handed[<<kind, monitor_tag>>] = IF r.ret = None THEN @ ELSE @ + 1]
        /\ last' = [op |-> "get_monitor", kind |-> kind, tag |-> monitor_tag,
                    before |-> health_monitor,
                    asked_before |-> <<kind, monitor_tag>> \in hm_seen.asked,
                    ret |-> r.ret]
    /\ UNCHANGED <<clock, deadlineVars, workerVars, configVars, heartbeatVars, logicVars,
                   hm_builder, threads, stepVars>>

\* Mutant: a monitor that is still Available is handed to the worker too.
collect_monitor_accepts_available(monitor) ==
    IF monitor.state = "Taken"
    THEN [ok |-> TRUE, left |-> EmptyContainer, handle |-> monitor.handle]
    ELSE IF monitor.state = "Available"
    THEN [ok |-> TRUE, left |-> EmptyContainer, handle |-> get_eval_handle(monitor.monitor)]
    ELSE [ok |-> FALSE, left |-> EmptyContainer]

\* Mutant: the containers are read where they are and stay as they were.
collect_monitor_by_reference(monitor) ==
    IF monitor.state = "Taken"
    THEN [ok |-> TRUE, left |-> monitor, handle |-> monitor.handle]
    ELSE [ok |-> FALSE, left |-> monitor]

\* collect_given_monitors, one container: the match on monitor.take(), which
\* leaves None in the map whatever it finds.
collect_monitor(monitor) ==
    IF monitor.state = "Taken"
    THEN [ok |-> TRUE, left |-> EmptyContainer, handle |-> monitor.handle]
    ELSE [ok |-> FALSE, left |-> EmptyContainer]

\* HealthMonitor::collect_given_monitors over the map's keys in the given
\* order; the walk ends at the first container that is not Taken.  (The
\* push cannot fail, the collection has room for every monitor.)
RECURSIVE collect_given_monitors(_, _, _)
collect_given_monitors(monitors_to_collect, order, collected_monitors) ==
    IF order = << >>
    THEN [result |-> "Ok", monitors |-> monitors_to_collect, collected |-> collected_monitors]
    ELSE LET tag == Head(order)
             step == collect_monitor(monitors_to_collect[tag])
             left == [monitors_to_collect EXCEPT ![tag] = step.left]
         IN  IF step.ok
             THEN collect_given_monitors(left, Tail(order),
                                         Append(collected_monitors, step.handle))
             ELSE [result |-> "WrongState", monitors |-> left,
                   collected |-> collected_monitors]

\* HealthMonitor::start with the orders its two walks take: the result, the
\* maps it leaves and the handles it gives to the MonitoringLogic.
health_monitor_start(hm, deadline_order, heartbeat_order) ==
    LET num_monitors == len(hm.deadline_monitors) + len(hm.heartbeat_monitors)
        deadlines == collect_given_monitors(hm.deadline_monitors, deadline_order, << >>)
        heartbeats == collect_given_monitors(hm.heartbeat_monitors, heartbeat_order,
                                             deadlines.collected)
    IN  IF num_monitors = 0
        THEN [result |-> "WrongState", hm |-> hm]
        ELSE IF deadlines.result # "Ok"
        THEN [result |-> "WrongState",
              hm |-> [hm EXCEPT !.deadline_monitors = deadlines.monitors]]
        ELSE IF heartbeats.result # "Ok"
        THEN [result |-> "WrongState",
              hm |-> [hm EXCEPT !.deadline_monitors = deadlines.monitors,
                                !.heartbeat_monitors = heartbeats.monitors]]
        ELSE [result |-> "Ok",
              hm |-> [hm EXCEPT !.deadline_monitors = deadlines.monitors,
                                !.heartbeat_monitors = heartbeats.monitors],
              monitors |-> heartbeats.collected]

\* HealthMonitor::start: on success MonitoringLogic::new and
\* UniqueThreadRunner::start, which spawns a thread whenever it is called.
StartHealthMonitor ==
    /\ health_monitor.result = "Ok"
    /\ \E deadline_order \in IterationOrders(health_monitor.deadline_monitors),
          heartbeat_order \in IterationOrders(health_monitor.heartbeat_monitors) :
        LET r == health_monitor_start(health_monitor, deadline_order, heartbeat_order) IN
            /\ health_monitor' = r.hm
            /\ threads' = IF r.result = "Ok"
                          THEN Append(threads,
                                      [monitors |-> r.monitors,
                                       supervisor_api_cycle |-> health_monitor.supervisor_api_cycle,
                                       last_notification |-> clock])
                          ELSE threads
            /\ last' = [op |-> "start_health_monitor", before |-> health_monitor,
                        started_before |-> hm_seen.started, threads_before |-> Len(threads),
                        ret |-> r.result]
    /\ hm_seen' = [hm_seen EXCEPT !.start_called = TRUE,
                                  !.started = @ \/ last'.ret = "Ok"]
    /\ UNCHANGED <<clock, deadlineVars, workerVars, configVars, heartbeatVars, logicVars,
                   hm_builder, stepVars>>

\* Mutant: the walk over the handles ends at the first one that reports.
RECURSIVE run_evaluations_until_error(_, _)
run_evaluations_until_error(monitors, failing) ==
    IF monitors = << >> THEN << >>
    ELSE IF Head(monitors) \in failing THEN <<Head(monitors)>>
    ELSE <<Head(monitors)>> \o run_evaluations_until_error(Tail(monitors), failing)

\* MonitoringLogic::run, its loop over self.monitors: the handles whose
\* evaluate it calls, in the order of the calls; failing are the handles
\* whose evaluate calls the error callback.
RECURSIVE run_evaluations(_, _)
run_evaluations(monitors, failing) ==
    IF monitors = << >> THEN << >>
    ELSE <<Head(monitors)>> \o run_evaluations(Tail(monitors), failing)

\* MonitoringLogic::run in the thread HealthMonitor::start spawned, with any
\* of its monitors reporting an error.
RunMonitors ==
    /\ threads # << >>
    /\ LET monitors == threads[1].monitors IN
        \E failing \in SUBSET {monitors[i] : i \in DOMAIN monitors} :
            LET evaluated == run_evaluations(monitors, failing)
                has_any_error == \E i \in DOMAIN evaluated : evaluated[i] \in failing
            IN  last' = [op |-> "run_monitors", monitors |-> monitors, failing |-> failing,
                         evaluated |-> evaluated, ret |-> run_result(has_any_error)]
    /\ UNCHANGED <<clock, deadlineVars, workerVars, configVars, heartbeatVars, logicVars,
                   healthMonitorVars, stepVars>>

----------------------------------------------------------------------------
(* Time                                                                     *)

Tick ==
    /\ clock < MaxTime
    /\ clock' = clock + 1
    /\ last' = [op |-> "tick"]
    /\ UNCHANGED <<deadlineVars, workerVars, configVars, healthMonitorVars, stepVars, heartbeatVars, logicVars>>

----------------------------------------------------------------------------
\* The logic monitor before build, with the builder new() returns.
LogicUnbuilt(initial_state) ==
    /\ logic_builder = LogicMonitorBuilder_new(initial_state)
    /\ logic_monitor = NotBuilt
    /\ current_state = HashedState_from(initial_state)
    /\ monitor_state = OK_STATE
    /\ logic_seen = [state |-> initial_state, fault |-> "None"]

\* The logic monitor of the scenarios that do not use it.
LogicUnused == LogicUnbuilt("state1")

\* The heartbeat monitor before build, its builder holding the given input.
HeartbeatUnbuilt(input) ==
    /\ hb_builder = input
    /\ heartbeat_monitor = NotBuilt
    /\ heartbeat_state = HeartbeatStateDefault
    /\ hmon_starting_point = None
    /\ hb_eval = None
    /\ beats = [count |-> 0, last_beat |-> -1, last_eval |-> 0, multiple |-> FALSE,
                faulted |-> FALSE]

\* The heartbeat monitor of the scenarios that do not use it.
HeartbeatUnused ==
    HeartbeatUnbuilt([range |-> [min |-> Duration(1, FALSE), max |-> Duration(2, FALSE)],
                      internal_processing_cycle |-> Duration(1, FALSE)])

\* The health monitor's builder as new() returns it, nothing built or started.
HealthMonitorUnbuilt ==
    /\ hm_builder = HealthMonitorBuilder_new
    /\ health_monitor = NotBuilt
    /\ threads = << >>
    /\ hm_seen = [asked |-> {}, handed |-> [key \in MonitorKinds \X MonitorTagUniverse |-> 0],
                  start_called |-> FALSE, started |-> FALSE, first_added |-> None]

\* No operation is under way.
NoCalls ==
    /\ deadline_calls = [stop |-> [tag \in Tags |-> None], evaluate |-> None]
    /\ logic_calls = [thread \in LogicThreads |-> None]

\* The health monitor, its deadline monitor and its worker before start.
InitLibrary ==
    /\ clock = 0
    /\ is_in_use = [tag \in Tags |-> FALSE]
    /\ active_deadlines = [tag \in Tags |-> DefaultSnapshot]
    /\ tokens = [tag \in Tags |-> 0]
    /\ handles = [tag \in Tags |-> FALSE]
    /\ section = [tag \in Tags |-> [state |-> "idle", since |-> 0, retaken |-> FALSE]]
    /\ worker_pc = "not_started"
    /\ should_stop = FALSE
    /\ handle = FALSE
    /\ join_pc = "idle"
    /\ supervisor_api_cycle \in SupervisorApiCycles
    /\ internal_duration_cycle \in InternalCycles
    /\ last_notification = 0
    /\ next_sleep_time = 0
    /\ now = 0
    /\ notify_called = 0
    /\ HealthMonitorUnbuilt
    /\ NoCalls
    /\ last = [op |-> "init"]

Init ==
    /\ InitLibrary
    /\ HeartbeatUnused
    /\ LogicUnused

\* The deadline monitor used on its own: application threads and direct
\* evaluation, no worker.
InitDeadline ==
    /\ Init
    /\ supervisor_api_cycle = 0
    /\ internal_duration_cycle = 1

NextDeadline ==
    \/ \E tag \in Tags : GetDeadline(tag)
    \/ GetDeadlineNotFound
    \/ \E tag \in Tags : DropDeadline(tag)
    \/ \E tag \in Tags : Start(tag)
    \/ \E tag \in Tags : Stop(tag)
    \/ Evaluate
    \/ Tick

SpecDeadline == InitDeadline /\ [][NextDeadline]_vars

\* The heartbeat monitor used on its own: built from any of the inputs, then
\* beats from the monitored thread and evaluations from the worker thread at
\* any time.
InitHeartbeat ==
    /\ InitLibrary
    /\ supervisor_api_cycle = 0
    /\ internal_duration_cycle = 1
    /\ \E input \in HeartbeatInputs : HeartbeatUnbuilt(input)
    /\ LogicUnused

NextHeartbeat ==
    \/ BuildHeartbeat
    \/ StartHmon
    \/ Heartbeat
    \/ EvaluateHeartbeatLoad
    \/ EvaluateHeartbeatStore
    \/ Tick

SpecHeartbeat == InitHeartbeat /\ [][NextHeartbeat]_vars

\* The heartbeat monitor in use for days: beats and evaluations as before,
\* and long times in which neither happens.
NextHeartbeatLong ==
    \/ BuildHeartbeat
    \/ StartHmon
    \/ Heartbeat
    \/ EvaluateHeartbeat
    \/ Tick
    \/ HeartbeatLeap

SpecHeartbeatLong == InitHeartbeat /\ [][NextHeartbeatLong]_vars

\* Periodic evaluation and beats that keep the range; processing cycles of
\* whole milliseconds.
InitHeartbeatCycle ==
    /\ InitHeartbeat
    /\ ~hb_builder.internal_processing_cycle.sub

NextHeartbeatCycle ==
    \/ BuildHeartbeat
    \/ StartHmon
    \/ CycleHeartbeat
    \/ CycleEvaluate
    \/ CycleTick

SpecHeartbeatCycle == InitHeartbeatCycle /\ [][NextHeartbeatCycle]_vars

\* The logic monitor used on its own: the builder is filled and built, then
\* the application moves between states and the monitor is evaluated.
InitLogic ==
    /\ InitLibrary
    /\ supervisor_api_cycle = 0
    /\ internal_duration_cycle = 1
    /\ HeartbeatUnused
    /\ \E initial_state \in StateTags : LogicUnbuilt(initial_state)

NextLogic ==
    \/ \E state \in StateTags : AddState(state)
    \/ \E from, to \in StateTags : AddTransition(from, to)
    \/ BuildLogic
    \/ \E to \in StateTags : Transition(to)
    \/ State
    \/ EvaluateLogic

SpecLogic == InitLogic /\ [][NextLogic]_vars

\* The whole library: the worker, the thread that drops the HealthMonitor,
\* and application threads working with the deadlines.
Application(tags) ==
    \/ \E tag \in tags : GetDeadline(tag)
    \/ \E tag \in tags : DropDeadline(tag)
    \/ \E tag \in tags : Start(tag)
    \/ \E tag \in tags : Stop(tag)

Next ==
    \/ Application(Tags)
    \/ GetDeadlineNotFound
    \/ Evaluate
    \/ StartWorker
    \/ Worker
    \/ JoinBegin
    \/ JoinEnd
    \/ Tick

Spec == Init /\ [][Next]_vars

\* The worker scenario: one application thread working with one deadline.
NextWorker ==
    \/ Application(WorkerTags)
    \/ StartWorker
    \/ Worker
    \/ JoinBegin
    \/ JoinEnd
    \/ Tick

SpecWorker == Init /\ [][NextWorker]_vars

\* The operating system runs the monitoring thread and wakes the joining
\* thread when the monitoring thread has ended.
SpecWorkerFair == SpecWorker /\ WF_vars(Worker) /\ WF_vars(JoinEnd)

\* The health monitor and its builder on their own: the builder is filled
\* and built, then monitors are asked for and start is called, in any order.
NextHealthMonitor ==
    \/ \E tag \in MonitorTags : AddDeadlineMonitor(tag)
    \/ \E tag \in MonitorTags, range \in HeartbeatBuilderRanges : AddHeartbeatMonitor(tag, range)
    \/ \E cycle_duration \in SupervisorApiCycleInputs : WithSupervisorApiCycle(cycle_duration)
    \/ \E cycle_duration \in InternalProcessingCycleInputs :
            WithInternalProcessingCycle(cycle_duration)
    \/ BuildHealthMonitor
    \/ \E kind \in MonitorKinds, tag \in MonitorTagUniverse : GetMonitor(kind, tag)
    \/ StartHealthMonitor
    \/ RunMonitors

SpecHealthMonitor == InitDeadline /\ [][NextHealthMonitor]_vars

\* The logic monitor shared by several application threads, transition as
\* the steps it is made of.
NextLogicThreads ==
    \/ \E state \in StateTags : AddState(state)
    \/ \E from, to \in StateTags : AddTransition(from, to)
    \/ BuildLogic
    \/ \E thread \in LogicThreads, to \in StateTags : TransitionLoadLatch(thread, to)
    \/ \E thread \in LogicThreads : TransitionLoadState(thread)
    \/ \E thread \in LogicThreads : TransitionStore(thread)
    \/ State
    \/ EvaluateLogic

SpecLogicThreads == InitLogic /\ [][NextLogicThreads]_vars

\* The deadline monitor with its operations as the steps they are made of:
\* one application thread working with one deadline, stop reading the clock
\* before it updates the slot, and the worker's evaluate loading each slot
\* before it reads the clock.
NextDeadlineSteps ==
    \/ \E tag \in WorkerTags : GetDeadline(tag)
    \/ \E tag \in WorkerTags : DropDeadline(tag)
    \/ \E tag \in WorkerTags : Start(tag)
    \/ \E tag \in WorkerTags : StopReadClock(tag)
    \/ \E tag \in WorkerTags : StopUpdate(tag)
    \/ EvaluateBegin
    \/ EvaluateSlotLoad
    \/ EvaluateSlotCheck
    \/ Tick

SpecDeadlineSteps == InitDeadline /\ [][NextDeadlineSteps]_vars

----------------------------------------------------------------------------
(* Properties                                                               *)

InWindow(tag, elapsed) == Range[tag].min <= elapsed /\ elapsed <= Range[tag].max

\* The worker is asleep and its wake-up time lies beyond the horizon.
HorizonReached == worker_pc = "sleep" /\ clock + next_sleep_time > MaxTime

\* C1: a run step in which a monitor's evaluate called the error callback
\* does not call notify_alive and returns false ("stop").
C1_ErrorSuppressesAlive ==
    last.op = "run" /\ last.emitted # {} => ~last.notified /\ ~last.ret

\* A run step with an error, at a time at which the alive notification was due.
C1_Witness ==
    last.op = "run" /\ last.emitted # {} /\ last.elapsed > supervisor_api_cycle

\* C2: when a run step has returned false the thread has left its loop, and
\* from then on it stays out and notify_alive is not called again, whatever
\* the application does.
C2_NoAliveAfterStop ==
    /\ [](last.op = "run" /\ ~last.ret => worker_pc = "failed")
    /\ [][worker_pc = "failed" =>
            worker_pc' = "failed" /\ notify_called' = notify_called]_vars

\* The thread left the loop after a failed run step that followed alive
\* notifications, and the application went on using the deadline.
C2_Witness ==
    /\ worker_pc = "failed"
    /\ notify_called > 0
    /\ last.op \in {"get_deadline", "drop_deadline", "start"}

\* C3: while no monitor reports an error and nobody joins, the started worker
\* calls notify_alive again and again: after every notification time t that
\* leaves room for another one before the horizon, a later notification
\* follows (or an error was reported, the stop flag set or the horizon reached).
C3_AliveInfinitelyOften ==
    \A t \in 0..MaxTime :
        (worker_pc # "not_started" /\ last_notification = t
            /\ t + supervisor_api_cycle < MaxTime)
        ~> (last_notification > t \/ worker_pc \in {"failed", "stopped"}
            \/ should_stop \/ HorizonReached)

\* C4: a run step without error calls notify_alive exactly when the time
\* since the last notification is greater than or equal to the cycle.
C4_AliveIffCycleElapsed ==
    last.op = "run" /\ last.emitted = {} =>
        /\ last.notified <=> last.elapsed >= supervisor_api_cycle
        /\ last.notified => last_notification = clock

\* C5: join sets the stop flag; the thread, when it next tests the flag,
\* leaves the loop; join returns only when the thread has ended, it does
\* return (within the horizon), and afterwards notify_alive is not called.
C5_JoinTerminates ==
    /\ [][worker_pc = "loop" /\ should_stop => worker_pc' \in {"loop", "stopped"}]_vars
    /\ [](join_pc # "idle" => should_stop)
    /\ [](join_pc = "returned" => WorkerDone \/ worker_pc = "not_started")
    /\ [][join_pc = "returned" => notify_called' = notify_called]_vars
    /\ (join_pc = "waiting" ~> (join_pc = "returned" \/ HorizonReached))

\* join has returned after the thread, which had sent alive notifications,
\* saw the flag.
C5_Witness == join_pc = "returned" /\ worker_pc = "stopped" /\ notify_called > 0

\* C6: per tag there is at most one live Deadline; get_deadline succeeds
\* exactly when none is live and returns DeadlineInUse exactly when one is.
C6_SingleToken ==
    /\ \A tag \in Tags : tokens[tag] <= 1 /\ (is_in_use[tag] <=> tokens[tag] = 1)
    /\ last.op = "get_deadline" /\ last.tag \in Tags =>
        /\ last.ret = "Ok" <=> last.live_before = 0
        /\ last.ret = "DeadlineInUse" <=> last.live_before > 0

\* A second get_deadline was turned away while the first Deadline is live.
C6_Witness ==
    last.op = "get_deadline" /\ last.ret = "DeadlineInUse" /\ tokens[last.tag] = 1

\* C7: a stop whose elapsed time is in [min,max] resets the slot to the
\* clean stopped state, and until the next start no evaluate reports the tag.
C7_InRangeIsSilent ==
    /\ last.op = "stop" /\ InWindow(last.tag, last.elapsed) =>
        active_deadlines[last.tag] = DefaultSnapshot
    /\ last.op = "evaluate" =>
        \A tag \in Tags : section[tag].state = "in_range" =>
            <<tag, "TooEarly">> \notin last.emitted /\ <<tag, "TooLate">> \notin last.emitted

\* An evaluate after "long" was stopped exactly at its upper bound, at a time
\* past the deadline the start had set.
C7_Witness ==
    /\ last.op = "evaluate"
    /\ section["long"].state = "in_range"
    /\ clock = MaxTime

\* C8: a stop with elapsed time below min sets the underrun bit; from then
\* on evaluate reports TooEarly for the tag and start returns
\* DeadlineAlreadyFailed and leaves the slot as it is.
C8_TooEarlyLatches ==
    /\ last.op = "stop" /\ last.elapsed < Range[last.tag].min =>
        is_underrun(active_deadlines[last.tag])
    /\ last.op = "evaluate" =>
        \A tag \in Tags : section[tag].state = "early" => <<tag, "TooEarly">> \in last.emitted
    /\ last.op = "start" /\ last.was = "early" =>
        last.ret = "DeadlineAlreadyFailed" /\ active_deadlines[last.tag] = last.before

\* A start on a deadline that was stopped too early.
C8_Witness == last.op = "start" /\ last.was = "early" /\ is_underrun(last.before)

\* C9: once more than max has passed since the start without a stop inside
\* the window, evaluate reports TooLate for the tag, before a stop and after
\* a late one.
C9_TooLateObserved ==
    last.op = "evaluate" =>
        \A tag \in Tags :
            section[tag].state \in {"started", "late"}
                /\ clock > section[tag].since + Range[tag].max
            => <<tag, "TooLate">> \in last.emitted

\* An evaluate after "long" was stopped too late.
C9_Witness == last.op = "evaluate" /\ section["long"].state = "late"

C11_UnderrunLatched ==
    /\ [][\A tag \in Tags : is_underrun(active_deadlines[tag]) =>
                is_underrun(active_deadlines'[tag])]_vars
    /\ [](last.op = "start" /\ is_underrun(last.before) =>
            last.ret = "DeadlineAlreadyFailed" /\ ~handles[last.tag])
    /\ [](last.op = "evaluate" =>
            \A tag \in Tags : is_underrun(active_deadlines[tag]) =>
                <<tag, "TooEarly">> \in last.emitted)

\* An evaluate at a time past the timestamp left in the slot, after the
\* Deadline of the failed slot was dropped and taken again.
C11_Witness ==
    /\ last.op = "evaluate"
    /\ section["long"].retaken
    /\ is_underrun(active_deadlines["long"])
    /\ tokens["long"] = 1
    /\ clock > timestamp_ms(active_deadlines["long"])

\* C12: with a processing cycle the builder accepts (2 * min > cycle), one
\* evaluation per cycle and beats whose distances lie in [min, max], no
\* evaluate emits an error.
C12_BeatsInRangeNeverFail ==
    last.op = "evaluate_heartbeat" => last.emitted = {}

\* What the evaluations of that scenario do emit: nothing but
\* MultipleHeartbeats, and that only when the cycle is longer than min.
CycleFaultsAreMultipleBeats ==
    last.op = "evaluate_heartbeat" /\ last.emitted # {} =>
        /\ last.emitted = {"MultipleHeartbeats"}
        /\ processing_cycle_ms > heartbeat_monitor.range.min

\* C13: evaluate on a snapshot without a beat emits TooLate when its time is
\* past the window's upper bound and nothing before; on a snapshot with one
\* beat it emits TooEarly for a beat before the window, TooLate for a beat
\* after it and nothing for a beat inside.  The window is
\* [start + min, start + max], start being the recorded cycle start or,
\* before the first completed cycle, the offset between the monitor's and
\* the health monitor's starting points; the beat is the time heartbeat()
\* was really called at.
C13_DecisionTable ==
    last.op = "evaluate_heartbeat" =>
        LET s == last.before
            mon == heartbeat_monitor.monitor_starting_point
            start == IF s.post_init THEN s.start_timestamp
                     ELSE hmon_starting_point.at - mon
            lo == start + heartbeat_monitor.range.min
            hi == start + heartbeat_monitor.range.max
            t == last.t
            beat == last.beats.last_beat - mon
        IN  /\ s.counter = 0 => last.emitted = (IF t > hi THEN {"TooLate"} ELSE {})
            /\ s.counter = 1 =>
                last.emitted = (IF beat < lo THEN {"TooEarly"}
                                ELSE IF beat > hi THEN {"TooLate"} ELSE {})

\* An evaluate that finds the one beat of a later cycle too early, on a
\* monitor built before the health monitor started.
C13_Witness ==
    /\ last.op = "evaluate_heartbeat"
    /\ last.before.counter = 1
    /\ last.before.post_init
    /\ last.offset > 0
    /\ last.emitted = {"TooEarly"}

\* C14: once two heartbeat() calls have happened without a cycle advance
\* between them, every evaluate that starts afterwards emits
\* MultipleHeartbeats and nothing else and leaves the state as it is,
\* whenever the beats and the evaluation happen; while two or more beats
\* are uncounted for, the counter is 2 or 3.
C14_MultipleBeatsReported ==
    /\ beats.count >= 2 => heartbeat_state.counter \in {2, 3}
    /\ last.op = "evaluate_heartbeat" /\ last.beats.multiple =>
        /\ last.emitted = {"MultipleHeartbeats"}
        /\ heartbeat_state = last.overwritten

\* C15: build returns InvalidArgument exactly when twice the whole
\* milliseconds of range.min do not exceed the whole milliseconds of the
\* processing cycle; otherwise it returns a monitor whose state is the
\* all-zero snapshot.
C15_BuildChecksCycle ==
    last.op = "build_heartbeat" =>
        /\ last.ret \in {"Ok", "InvalidArgument"}
        /\ last.ret = "InvalidArgument" <=>
                2 * hb_builder.range.min.ms <= hb_builder.internal_processing_cycle.ms
        /\ last.ret = "Ok" =>
            /\ heartbeat_monitor.result = "Ok"
            /\ heartbeat_state.counter = 0 /\ ~heartbeat_state.post_init
            /\ heartbeat_state.start_timestamp = 0
            /\ heartbeat_state.heartbeat_timestamp_offset = 0

\* A build turned away with the cycle exactly twice range.min.
C15_Witness ==
    /\ last.op = "build_heartbeat"
    /\ last.ret = "InvalidArgument"
    /\ hb_builder.range.min.ms > 0
    /\ 2 * hb_builder.range.min.ms = hb_builder.internal_processing_cycle.ms

\* What state() returns in the state reached.
StateNow == logic_state(monitor_state, current_state, logic_monitor.allowed_states)

\* C16: on a monitor with a zero latch, transition(to) returns Ok(to)
\* exactly when to is an allowed state and (current, to) is an allowed
\* transition, current being the state the application moved the monitor
\* to last; then, and only then, state() returns to afterwards.
C16_TransitionSucceedsIffAllowed ==
    last.op = "transition" /\ last.latch_before = OK_STATE =>
        LET allowed == /\ last.to \in logic_monitor.allowed_states
                       /\ <<last.from, last.to>> \in logic_monitor.allowed_transitions
        IN  /\ last.ret = Ok(last.to) <=> allowed
            /\ allowed => StateNow = Ok(last.to)
            /\ ~allowed => StateNow # Ok(last.to) /\ ~last.ret.ok

\* A successful transition out of a state that an earlier transition led to.
C16_Witness ==
    /\ last.op = "transition"
    /\ last.ret = Ok(last.to)
    /\ last.from # logic_builder.initial_state
    /\ last.to # last.from

\* C17: on a monitor with a zero latch, transition(to) for a to that is not
\* an allowed state sets the latch to InvalidState and returns InvalidState;
\* for an allowed to with (current, to) not an allowed transition it sets
\* the latch to InvalidTransition and returns InvalidTransition; neither
\* changes the current state.
C17_FaultyTransitionLatches ==
    last.op = "transition" /\ last.latch_before = OK_STATE =>
        /\ last.to \notin logic_monitor.allowed_states =>
            /\ last.ret = Err("InvalidState")
            /\ monitor_state = OK_STATE + 1
            /\ current_state = last.hashed_before /\ logic_seen.state = last.from
        /\ (/\ last.to \in logic_monitor.allowed_states
            /\ <<last.from, last.to>> \notin logic_monitor.allowed_transitions) =>
            /\ last.ret = Err("InvalidTransition")
            /\ monitor_state = OK_STATE + 2
            /\ current_state = last.hashed_before /\ logic_seen.state = last.from

\* A transition to a tag that is not an allowed state, asked after an
\* earlier transition had succeeded.
C17_Witness ==
    /\ last.op = "transition"
    /\ last.latch_before = OK_STATE
    /\ last.to \notin logic_monitor.allowed_states
    /\ last.from # logic_builder.initial_state

\* C18: with a non-zero latch, of either kind, transition(to) (for an
\* allowed transition too) and state() return InvalidState and change
\* neither the current state nor the latch.
C18_LatchedMonitorRefuses ==
    last.op \in {"transition", "state"} /\ last.latch_before # OK_STATE =>
        /\ last.ret = Err("InvalidState")
        /\ current_state = last.hashed_before
        /\ monitor_state = last.latch_before

\* An allowed transition asked of a monitor that has latched
\* InvalidTransition.
C18_Witness ==
    /\ last.op = "transition"
    /\ last.latch_before = OK_STATE + 2
    /\ last.to \in logic_monitor.allowed_states
    /\ <<last.from, last.to>> \in logic_monitor.allowed_transitions

\* C19: evaluate calls on_error exactly once, with the monitor's tag and the
\* kind of error the first faulty transition call returned, if a faulty
\* transition call has returned, and not at all otherwise; the latch is
\* non-zero exactly from that call on.
C19_EvaluateReportsLatch ==
    /\ logic_monitor.result = "Ok" => (monitor_state # OK_STATE <=> logic_seen.fault # "None")
    /\ last.op = "evaluate_logic" =>
        /\ last.emitted = IF logic_seen.fault = "None" THEN << >>
                          ELSE << <<LogicMonitorTag, logic_seen.fault>> >>
        /\ monitor_state = last.latch_before

\* An evaluate after a transition that was not allowed.
C19_Witness ==
    /\ last.op = "evaluate_logic"
    /\ logic_seen.fault = "InvalidTransition"
    /\ Len(last.emitted) = 1

\* C20: build returns WrongState when no transition was added,
\* InvalidArgument when a transition starts or ends at a state that is
\* neither the initial state nor an added one, and otherwise a monitor in
\* the initial state with a zero latch.
C20_BuildChecksTransitions ==
    last.op = "build_logic" =>
        LET states == logic_builder.allowed_states
            transitions == logic_builder.allowed_transitions
            outside == \E tr \in transitions : tr[1] \notin states \/ tr[2] \notin states
        IN  /\ logic_builder.initial_state \in states
            /\ transitions = {} => last.ret = "WrongState"
            /\ transitions # {} /\ outside => last.ret = "InvalidArgument"
            /\ transitions # {} /\ ~outside =>
                /\ last.ret = "Ok"
                /\ StateNow = Ok(logic_builder.initial_state)
                /\ monitor_state = OK_STATE

\* A build turned away for a transition that ends at a state nobody added,
\* from the initial state that nobody added either.
C20_Witness ==
    /\ last.op = "build_logic"
    /\ last.ret = "InvalidArgument"
    /\ \E tr \in logic_builder.allowed_transitions :
          tr[1] = logic_builder.initial_state /\ tr[2] \notin logic_builder.allowed_states

\* The monitors a health monitor was built with, and what their containers
\* hold.
Registered(hm) ==
    {key \in MonitorKinds \X MonitorTagUniverse : MonitorsOf(hm, key[1])[key[2]] # Absent}
ContainerOf(hm, key) == MonitorsOf(hm, key[1])[key[2]]
SomeAvailable(hm) == \E key \in Registered(hm) : ContainerOf(hm, key).state = "Available"
AllTaken(hm) == \A key \in Registered(hm) : ContainerOf(hm, key).state = "Taken"

\* C21: a start that finds a registered monitor still Available returns
\* WrongState and spawns nothing; a start that finds every registered
\* monitor Taken succeeds and spawns a worker whose MonitoringLogic holds
\* one evaluation handle per registered monitor, each exactly once; what the
\* first worker holds is changed by no later operation.
C21_StartNeedsAllTaken ==
    /\ [](last.op = "start_health_monitor" =>
            /\ SomeAvailable(last.before) =>
                last.ret = "WrongState" /\ Len(threads) = last.threads_before
            /\ AllTaken(last.before) =>
                /\ last.ret = "Ok"
                /\ Len(threads) = last.threads_before + 1
                /\ LET monitors == threads[Len(threads)].monitors IN
                    /\ Len(monitors) = Cardinality(Registered(last.before))
                    /\ {monitors[i] : i \in DOMAIN monitors} =
                          {get_eval_handle([kind |-> key[1], tag |-> key[2]]) :
                              key \in Registered(last.before)})
    /\ [][threads # << >> => threads' # << >> /\ threads'[1] = threads[1]]_vars

\* The application asks for a monitor after start has succeeded on a health
\* monitor with monitors of both kinds.
C21_Witness ==
    /\ last.op = "get_monitor"
    /\ Len(threads) = 1
    /\ Len(threads[1].monitors) >= 3

\* C22: get_<kind>_monitor on an Available container returns the monitor
\* and leaves the container Taken with that monitor's evaluation handle; on
\* a Taken container, and for a tag that is not registered for the kind, it
\* returns None and changes nothing.  No monitor is handed out twice, and as
\* long as start was not called, of the calls for a registered tag exactly
\* the first returns the monitor.
C22_HandedOutOnce ==
    /\ \A key \in MonitorKinds \X MonitorTagUniverse : hm_seen.handed[key] <= 1
    /\ last.op = "get_monitor" =>
        LET key == <<last.kind, last.tag>>
            before == ContainerOf(last.before, key)
            monitor == [kind |-> last.kind, tag |-> last.tag]
        IN  /\ before.state = "Available" =>
                /\ last.ret = Some(monitor)
                /\ ContainerOf(health_monitor, key) = Taken(get_eval_handle(monitor))
                /\ \A other \in (MonitorKinds \X MonitorTagUniverse) \ {key} :
                      ContainerOf(health_monitor, other) = ContainerOf(last.before, other)
            /\ before.state = "Taken" => last.ret = None /\ health_monitor = last.before
            /\ before = Absent => last.ret = None /\ health_monitor = last.before
            /\ before # Absent /\ ~hm_seen.start_called =>
                (last.ret # None <=> ~last.asked_before)

\* A second call for a monitor that was handed out, while another monitor
\* of the same tag and the other kind is still there.
C22_Witness ==
    /\ last.op = "get_monitor"
    /\ last.asked_before
    /\ last.ret = None
    /\ ContainerOf(last.before, <<last.kind, last.tag>>).state = "Taken"
    /\ SomeAvailable(health_monitor)
    /\ ~hm_seen.start_called

\* s is a positive integer multiple of i: s = k * i for some k >= 1.
PositiveMultiple(s, i) == \E k \in 1..(s + 1) : s = k * i

HeartbeatBuildersValid ==
    \A tag \in MonitorTagUniverse :
        hm_builder.heartbeat_monitor_builders[tag] # Absent =>
            2 * hm_builder.heartbeat_monitor_builders[tag].range.min.ms
                > hm_builder.internal_processing_cycle.ms

\* C23: build, of a builder whose heartbeat sub-builders all hold a range
\* the processing cycle admits, returns InvalidArgument exactly when the
\* whole milliseconds of supervisor_api_cycle are not a positive integer
\* multiple of the whole milliseconds of internal_processing_cycle.
C23_BuildChecksCycleRatio ==
    last.op = "build_health_monitor" /\ HeartbeatBuildersValid =>
        (last.ret = "InvalidArgument" <=>
            ~PositiveMultiple(as_millis(hm_builder.supervisor_api_cycle),
                              as_millis(hm_builder.internal_processing_cycle)))

\* What build does return InvalidArgument for: a supervisor cycle that is
\* not a multiple of the processing cycle, zero counting as a multiple of
\* every cycle, and, when monitors were added, a heartbeat range the
\* processing cycle does not admit.
BuildInvalidArgumentCases ==
    last.op = "build_health_monitor" =>
        LET s == as_millis(hm_builder.supervisor_api_cycle)
            i == as_millis(hm_builder.internal_processing_cycle)
            multiple == s = 0 \/ PositiveMultiple(s, i)
        IN  /\ ~multiple => last.ret = "InvalidArgument"
            /\ multiple /\ HeartbeatBuildersValid => last.ret \in {"Ok", "WrongState"}
            /\ multiple /\ ~HeartbeatBuildersValid => last.ret = "InvalidArgument"

\* C24: with the supervisor cycle a positive multiple of the processing
\* cycle, build returns WrongState and no HealthMonitor when no monitor of
\* either kind was added; with a monitor added and every heartbeat
\* sub-builder's range accepted it returns a HealthMonitor that holds
\* exactly the added monitors, every one Available.
C24_BuildNeedsMonitors ==
    last.op = "build_health_monitor"
        /\ PositiveMultiple(as_millis(hm_builder.supervisor_api_cycle),
                            as_millis(hm_builder.internal_processing_cycle)) =>
        LET added == {key \in MonitorKinds \X MonitorTagUniverse :
                          IF key[1] = "deadline"
                          THEN hm_builder.deadline_monitor_builders[key[2]] # Absent
                          ELSE hm_builder.heartbeat_monitor_builders[key[2]] # Absent}
        IN  /\ added = {} => last.ret = "WrongState" /\ health_monitor.result = "WrongState"
            /\ added # {} /\ HeartbeatBuildersValid =>
                /\ last.ret = "Ok"
                /\ health_monitor.result = "Ok"
                /\ Registered(health_monitor) = added
                /\ \A key \in added :
                      ContainerOf(health_monitor, key) =
                          Available([kind |-> key[1], tag |-> key[2]])

\* A build without monitors, turned away although the cycles were set to
\* values that fit.
C24_Witness ==
    /\ last.op = "build_health_monitor"
    /\ last.ret = "WrongState"
    /\ hm_builder.supervisor_api_cycle # HealthMonitorBuilder_new.supervisor_api_cycle
    /\ PositiveMultiple(as_millis(hm_builder.supervisor_api_cycle),
                        as_millis(hm_builder.internal_processing_cycle))

\* C25: UniqueThreadRunner::start runs at most once per HealthMonitor: no
\* second thread is ever spawned, and every start after a successful one
\* returns an error.
C25_OneWorker ==
    /\ Len(threads) <= 1
    /\ hm_seen.started <=> Len(threads) = 1
    /\ last.op = "start_health_monitor" /\ last.started_before =>
        last.ret # "Ok" /\ Len(threads) = last.threads_before

\* A start after a successful start.
C25_Witness ==
    /\ last.op = "start_health_monitor"
    /\ last.started_before
    /\ Len(threads) = 1

\* C26: a start that returns WrongState because a monitor is still
\* Available leaves every container as it was.
C26_FailedStartChangesNothing ==
    last.op = "start_health_monitor" /\ last.ret = "WrongState" /\ SomeAvailable(last.before) =>
        health_monitor = last.before

\* What is left after such a start: the container the walk stopped at and
\* the ones it passed hold nothing, so the monitor that was Available is
\* handed to nobody from then on and no later start succeeds.
FailedStartIsFinal ==
    /\ last.op = "start_health_monitor" =>
        /\ last.ret = "WrongState" =>
            \E key \in Registered(health_monitor) :
                ContainerOf(health_monitor, key) = EmptyContainer
        /\ (\E key \in Registered(last.before) :
                ContainerOf(last.before, key) = EmptyContainer) => last.ret = "WrongState"
    /\ last.op = "get_monitor"
            /\ ContainerOf(last.before, <<last.kind, last.tag>>) = EmptyContainer =>
        last.ret = None /\ health_monitor = last.before

\* C27: when heartbeat() has changed the state between evaluate's load and
\* the end of that evaluate, evaluate has replaced nothing: the state is the
\* one heartbeat() left, with the beat counted in it.
C27_NoLostHeartbeat ==
    last.op = "evaluate_heartbeat" /\ last.overwritten # last.before =>
        /\ heartbeat_state = last.overwritten
        /\ heartbeat_state.counter > 0

\* C28: the slot check of an evaluate emits no error for a tag whose stop
\* has read the clock inside [start + min, start + max] and has not updated
\* the slot yet, nor for a tag whose last section such a stop has ended,
\* whenever the evaluate loaded the slot.
C28_InRangeStopNeverReported ==
    last.op = "evaluate_slot" =>
        LET tag == last.tag
            stopping_in_range ==
                /\ last.stopping # None
                /\ InWindow(tag, last.stopping.now - section[tag].since)
        IN  stopping_in_range \/ section[tag].state = "in_range" => last.err = "None"

\* C29: with transition called from several threads, every change of the
\* current state goes from the value it held just before the write to a
\* value the allowed transitions lead to from there, and happens while the
\* latch is zero.
C29_ConcurrentTransitionsAllowed ==
    [][current_state' # current_state =>
        /\ monitor_state = OK_STATE
        /\ \E tr \in logic_monitor.allowed_transitions :
              /\ HashedState_from(tr[1]) = current_state
              /\ HashedState_from(tr[2]) = current_state']_vars

\* C30 as claimed: a start on a slot whose deadline was missed and stopped
\* succeeds.
C30_MissedIsNotTerminal ==
    last.op = "start" /\ last.was = "late" => last.ret = "Ok"

\* C30, amended: a missed deadline is terminal.  The stop after the miss
\* leaves the slot running with its expired timestamp; every start on the
\* slot from then on returns DeadlineAlreadyFailed and changes nothing, so
\* no section follows the missed one; and every evaluate emits TooLate for
\* the tag.
C30_MissedIsTerminal ==
    /\ [](\A tag \in Tags : section[tag].state = "late" =>
            /\ is_running(active_deadlines[tag])
            /\ timestamp_ms(active_deadlines[tag]) = section[tag].since + Range[tag].max
            /\ timestamp_ms(active_deadlines[tag]) < clock
            /\ ~handles[tag])
    /\ [](last.op = "start" /\ last.was = "late" =>
            /\ last.ret = "DeadlineAlreadyFailed"
            /\ active_deadlines[last.tag] = last.before)
    /\ [](last.op = "evaluate" =>
            \A tag \in Tags : section[tag].state = "late" => <<tag, "TooLate">> \in last.emitted)
    /\ [][\A tag \in Tags : section[tag].state = "late" => section'[tag] = section[tag]]_vars

\* A start on the missed deadline while there is time left for a whole
\* section.
C30_Witness ==
    /\ last.op = "start"
    /\ last.was = "late"
    /\ tokens[last.tag] > 0
    /\ clock + Range[last.tag].max <= MaxTime

\* The state a deadline slot is in, as the transition graph names it.
SlotState(snapshot) ==
    IF is_underrun(snapshot) THEN "underrun"
    ELSE IF is_running(snapshot) THEN "running"
    ELSE "stopped"

\* C31: a deadline slot changes only from stopped to running by a
\* successful start (timestamp = now + max), from running to stopped by a
\* stop in range, and from running to underrun by a stop that is too early;
\* a failed start, a stop after the miss, evaluate, get_deadline and the
\* drop of a token leave the slot as it is.  Stop and evaluate are taken
\* step by step, interleaved.
C31_SlotTransitionGraph ==
    [][\A tag \in Tags :
        LET old == active_deadlines[tag]
            new == active_deadlines'[tag]
            by_start == last'.op = "start" /\ last'.tag = tag
            by_stop == last'.op = "stop" /\ last'.tag = tag
        IN  /\ new # old =>
                \/ /\ by_start /\ last'.ret = "Ok"
                   /\ SlotState(old) = "stopped"
                   /\ SlotState(new) = "running"
                   /\ timestamp_ms(new) = clock + Range[tag].max
                \/ /\ by_stop /\ last'.logged = "None"
                   /\ SlotState(old) = "running"
                   /\ SlotState(new) = "stopped"
                \/ /\ by_stop /\ last'.logged = "TooEarly"
                   /\ SlotState(old) = "running"
                   /\ SlotState(new) = "underrun"
            /\ \/ by_start /\ last'.ret = "DeadlineAlreadyFailed"
               \/ by_stop /\ last'.logged = "TooLate"
               \/ last'.op \in {"evaluate_begin", "evaluate_load", "evaluate_slot",
                                "get_deadline", "drop_deadline", "stop_now"}
               => new = old
            /\ by_start /\ last'.ret = "Ok" => SlotState(old) = "stopped" /\ new # old
            /\ by_stop /\ last'.logged # "TooLate" => new # old]_vars

\* A stop after the miss has returned while evaluate was between its load
\* and its tests for the slot, and the slot is still running.
C31_Witness ==
    /\ last.op = "stop"
    /\ last.logged = "TooLate"
    /\ deadline_calls.evaluate # None
    /\ deadline_calls.evaluate.snapshot # None
    /\ SlotState(active_deadlines[last.tag]) = "running"

\* C32 as claimed: evaluate emits, for every slot, TooLate when the
\* snapshot has running set and its timestamp is before now, TooEarly when
\* it has underrun set, and nothing else.
C32_EvaluateEmitsBoth ==
    last.op = "evaluate" =>
        \A tag \in Tags :
            LET snapshot == active_deadlines[tag] IN
            /\ <<tag, "TooLate">> \in last.emitted <=>
                   is_running(snapshot) /\ timestamp_ms(snapshot) < clock
            /\ <<tag, "TooEarly">> \in last.emitted <=> is_underrun(snapshot)

\* C32, amended: evaluate visits every slot and emits at most one error for
\* each, whatever the other slots hold: TooEarly when the snapshot has
\* underrun set, also when running is still set and the timestamp has
\* passed; TooLate when underrun is not set, running is set and the
\* timestamp is before now; nothing otherwise.
C32_EvaluateEmitsPerSlot ==
    last.op = "evaluate" =>
        /\ last.emitted \subseteq Tags \X {"TooEarly", "TooLate"}
        /\ \A tag \in Tags :
            LET snapshot == active_deadlines[tag] IN
            /\ <<tag, "TooEarly">> \in last.emitted <=> is_underrun(snapshot)
            /\ <<tag, "TooLate">> \in last.emitted <=>
                   /\ ~is_underrun(snapshot)
                   /\ is_running(snapshot)
                   /\ timestamp_ms(snapshot) < clock

\* An evaluate that finds one slot stopped too early with its timestamp in
\* the past and the other slot running and missed.
C32_Witness ==
    /\ last.op = "evaluate"
    /\ is_underrun(active_deadlines["long"])
    /\ is_running(active_deadlines["long"])
    /\ timestamp_ms(active_deadlines["long"]) < clock
    /\ SlotState(active_deadlines["fast"]) = "running"
    /\ timestamp_ms(active_deadlines["fast"]) < clock
    /\ last.emitted = {<<"long", "TooEarly">>, <<"fast", "TooLate">>}

\* The cycle start evaluate measures the snapshot it loaded from, and the
\* timestamp of the beat that snapshot holds.
CycleStartOf(snapshot, offset) ==
    IF snapshot.post_init THEN snapshot.start_timestamp ELSE offset
BeatTimestampOf(snapshot) ==
    IF snapshot.post_init
    THEN snapshot.start_timestamp + snapshot.heartbeat_timestamp_offset
    ELSE snapshot.heartbeat_timestamp_offset

\* Exactly one beat, inside the window.
OneBeatInWindow(snapshot, offset) ==
    /\ snapshot.counter = 1
    /\ BeatTimestampOf(snapshot) >= CycleStartOf(snapshot, offset) + heartbeat_monitor.range.min
    /\ BeatTimestampOf(snapshot) <= CycleStartOf(snapshot, offset) + heartbeat_monitor.range.max

\* C33: heartbeat evaluate writes the state only when the snapshot it
\* loaded holds exactly one beat inside the window, and then the state is
\* start_timestamp = that beat's timestamp (the monitor's time at which the
\* beat was given), counter = 0, offset = 0, post_init = true; in every
\* other case (no beat, early beat, late beat, several beats) the state is
\* what it was before evaluate returned.
C33_EvaluateWritesOnlyInWindow ==
    last.op = "evaluate_heartbeat" =>
        IF OneBeatInWindow(last.before, last.offset)
        THEN /\ heartbeat_state = [start_timestamp |-> BeatTimestampOf(last.before),
                                   heartbeat_timestamp_offset |-> 0,
                                   counter |-> 0,
                                   post_init |-> TRUE]
             /\ heartbeat_state.start_timestamp =
                    last.beats.last_beat - heartbeat_monitor.monitor_starting_point
             /\ last.emitted = {}
        ELSE heartbeat_state = last.overwritten

\* An evaluate of a cycle after the first that found one beat inside the
\* window and started the next cycle at that beat.
C33_Witness ==
    /\ last.op = "evaluate_heartbeat"
    /\ last.before.post_init
    /\ OneBeatInWindow(last.before, last.offset)
    /\ heartbeat_state.start_timestamp > last.before.start_timestamp
    /\ heartbeat_monitor.range.min > 0

\* An evaluate that found a beat before the window and left the state.
EvaluateLeavesEarlyBeat ==
    /\ last.op = "evaluate_heartbeat"
    /\ last.emitted = {"TooEarly"}
    /\ heartbeat_state = last.overwritten
    /\ heartbeat_state.counter = 1

FaultAfterFaultIsTooLate ==
    /\ last.op = "evaluate_heartbeat"
    /\ last.beats.faulted
    /\ last.before.counter = 1
    /\ last.emitted = {"TooLate"}

\* C35: heartbeat() never panics at a call time below the u32 ceiling:
\* now - start_timestamp does not underflow and is below 1 << 29.
C35_HeartbeatNeverPanics ==
    last.op = "heartbeat" => last.ret = "Ok"

\* What does hold: the subtraction never underflows, so a heartbeat()
\* panics exactly when 1 << 29 ms or more have passed since the start of
\* the cycle the state holds.
HeartbeatPanicsOnlyOnWideOffset ==
    last.op = "heartbeat" =>
        /\ last.t >= last.start_ts
        /\ last.ret = "panic" <=> last.t - last.start_ts >= HEARTBEAT_OFFSET_LIMIT

\* C36: the monitoring thread leaves its loop only because it saw the stop
\* flag set or because a run step returned false; the computation of the
\* next sleep time never ends it.
C36_LoopEndsByFlagOrStop ==
    [][~WorkerDone /\ WorkerDone' =>
          \/ worker_pc = "loop" /\ should_stop /\ worker_pc' = "stopped"
          \/ worker_pc = "run" /\ last'.op = "run" /\ ~last'.ret /\ worker_pc' = "failed"]_vars

\* What does hold: besides those two ways the thread ends only by the
\* panic of interval - now.elapsed(), and that exactly when the run step
\* took longer than the internal processing cycle.
LoopEndsByPanicOnOverrun ==
    [][~WorkerDone /\ WorkerDone' =>
          \/ worker_pc = "loop" /\ should_stop /\ worker_pc' = "stopped"
          \/ worker_pc = "run" /\ last'.op = "run" /\ ~last'.ret /\ worker_pc' = "failed"
          \/ /\ worker_pc = "next"
             /\ clock - now > internal_duration_cycle
             /\ worker_pc' = "panicked"]_vars

\* C37: every run step evaluates the monitors in the order in which they
\* were added to the HealthMonitorBuilder; so the monitor it evaluates
\* first is the one that was added first.
C37_EvaluationInInsertionOrder ==
    last.op = "run_monitors" => last.evaluated[1].inner = hm_seen.first_added

\* What does hold: within one run the order is the same in every step, it
\* names every monitor of the HealthMonitor once, and the deadline monitors
\* come before the heartbeat monitors; the order inside a kind is the one
\* the HashMap's iteration took at start.
EvaluationOrderFixedAtStart ==
    last.op = "run_monitors" =>
        LET evaluated == last.evaluated IN
        /\ evaluated = threads[1].monitors
        /\ Len(evaluated) = Cardinality(Registered(health_monitor))
        /\ \A key \in Registered(health_monitor) :
              \E i \in DOMAIN evaluated : evaluated[i].inner = [kind |-> key[1], tag |-> key[2]]
        /\ \A i, j \in DOMAIN evaluated :
              /\ evaluated[i].inner.kind = "deadline"
              /\ evaluated[j].inner.kind = "heartbeat"
              => i < j

\* C38: one run step evaluates every handle of the MonitoringLogic exactly
\* once, also after an earlier handle has reported an error in that step.
C38_EveryHandleEvaluatedOnce ==
    last.op = "run_monitors" =>
        /\ \A i \in DOMAIN last.monitors :
              Cardinality({j \in DOMAIN last.evaluated : last.evaluated[j] = last.monitors[i]}) = 1
        /\ Len(last.evaluated) = Len(last.monitors)
        /\ last.ret <=> last.failing = {}

\* A run step over three monitors in which the first one reported an error
\* and the last one did not.
C38_Witness ==
    /\ last.op = "run_monitors"
    /\ Len(last.monitors) = 3
    /\ last.monitors[1] \in last.failing
    /\ last.monitors[3] \notin last.failing
    /\ ~last.ret

\* C39: the error latch of the logic monitor, once it is not 0, never is 0
\* again, whatever transition calls of several threads, step by step, and
\* evaluate calls follow.
C39_LatchMonotone ==
    [][monitor_state # OK_STATE => monitor_state' # OK_STATE]_vars

\* A transition that had loaded the latch before it was set has just
\* stored its own error over the one that was latched.
C39_Witness ==
    /\ last.op = "transition_return"
    /\ last.latch_before # OK_STATE
    /\ monitor_state # OK_STATE
    /\ monitor_state # last.latch_before

\* C40 as claimed: a transition on a latched monitor returns the kind of
\* error that was latched.
C40_TransitionReturnsLatchedKind ==
    last.op = "transition" /\ last.latch_before # OK_STATE =>
        last.ret = Err(LogicEvaluationError_from(last.latch_before))

\* C40, amended: after a fault has been latched every transition call
\* returns InvalidState, whichever kind was latched, and leaves the latch;
\* the kind that was latched is what evaluate reports.
C40_TransitionReturnsInvalidState ==
    /\ last.op = "transition" /\ last.latch_before # OK_STATE =>
          /\ last.ret = Err("InvalidState")
          /\ monitor_state = last.latch_before
    /\ last.op = "evaluate_logic" /\ last.latch_before # OK_STATE =>
          last.emitted = << <<LogicMonitorTag, LogicEvaluationError_from(last.latch_before)>> >>

\* The transition that had latched InvalidTransition, asked once more.
C40_Witness ==
    /\ last.op = "transition"
    /\ last.latch_before = OK_STATE + 2
    /\ last.to \in logic_monitor.allowed_states
    /\ <<last.from, last.to>> \notin logic_monitor.allowed_transitions
    /\ last.ret = Err("InvalidState")

====
